---- MODULE Spec2Model ----
(***************************************************************************)
(* Model of the pot-odds backend: the card/deck model and the hand-strength *)
(* oracle (poker_engine.py), the outs classifier (outs_detector.py), the    *)
(* nuts evaluator (poker_engine.py) and the probability/ratio engine and    *)
(* orchestrator (pot_odds_calculator.py).                                   *)
(*                                                                         *)
(* A card is its index in PokerEngine.deck (rank-major, suits in the order  *)
(* of Card.SUITS), so card equality is equality of rank and suit.           *)
(***************************************************************************)
EXTENDS Integers, Sequences, FiniteSets, TLC

\* ------------------------------------------------------------------------
\* Card / deck model (poker_engine.py, class Card and PokerEngine.deck)
\* ------------------------------------------------------------------------

\* Card.SUITS = 'shdc': suit index 0..3 in that order
SUITS == <<"s", "h", "d", "c">>

\* Card.RANKS = '23456789TJQKA': rank characters by value 2..14
RANKS == <<"2", "3", "4", "5", "6", "7", "8", "9", "T", "J", "Q", "K", "A">>

\* Card.RANK_VALUES: enumerate(RANKS, 2)
Value(c) == (c \div 4) + 2

Suit(c) == c % 4

\* PokerEngine._create_deck: for rank in RANKS, for suit in SUITS
deck == [i \in 1..52 |-> i - 1]

\* Card.__str__
CardStr(c) == RANKS[Value(c) - 1] \o SUITS[Suit(c) + 1]

\* the card of a given value and suit (Card(f"{rank}{suit}"))
MkCard(v, s) == (v - 2) * 4 + s

SeqToSet(s) == {s[i] : i \in 1..Len(s)}

\* list comprehension [x for x in s if x in keep], order-preserving
FilterSeq(s, keep) == SelectSeq(s, LAMBDA x : x \in keep)

\* self.deck of the engine every caller shares, and whether the evaluator
\* library fails on every call; the other variables are declared with the
\* calls below
VARIABLES engine_deck, oracle_fails

\* get_remaining_deck removing the known cards from self.deck in place
deck_after_removal(self_deck, known_cards) ==
    FilterSeq(self_deck, (0..51) \ SeqToSet(known_cards))

\* self.deck after get_remaining_deck(known_cards): the list comprehension
\* builds a new list and leaves self.deck as it was
deck_after_get_remaining_deck(self_deck, known_cards) == self_deck

\* get_remaining_deck returning the whole deck, the known cards included
get_remaining_deck_whole(known_cards) == engine_deck

\* PokerEngine.get_remaining_deck: self.deck minus the known cards, in deck
\* order
get_remaining_deck(known_cards) ==
    FilterSeq(engine_deck, (0..51) \ SeqToSet(known_cards))

\* ------------------------------------------------------------------------
\* Hand-strength oracle (phevaluator.evaluate_cards as used by
\* PokerEngine.evaluate_hand_strength): best five of the cards given, as
\* the rank 1..7462 of its equivalence class, lower = stronger, with the
\* category boundaries of PokerEngine.get_hand_type_from_rank.
\* ------------------------------------------------------------------------

\* Binomial coefficients C(n, k) for n in 0..13, k in 1..5: Binom[n+1][k]
Binom ==
    << <<0, 0, 0, 0, 0>>,      <<1, 0, 0, 0, 0>>,      <<2, 1, 0, 0, 0>>,
       <<3, 3, 1, 0, 0>>,      <<4, 6, 4, 1, 0>>,      <<5, 10, 10, 5, 1>>,
       <<6, 15, 20, 15, 6>>,   <<7, 21, 35, 35, 21>>,  <<8, 28, 56, 70, 56>>,
       <<9, 36, 84, 126, 126>>, <<10, 45, 120, 210, 252>>,
       <<11, 55, 165, 330, 462>>, <<12, 66, 220, 495, 792>>,
       <<13, 78, 286, 715, 1287>> >>

\* the five ranks of the straight whose high card is h (h = 5: the wheel)
Window(h) == IF h = 5 THEN {14, 2, 3, 4, 5} ELSE (h - 4)..h

MaxOf(S) == CHOOSE x \in S : \A y \in S : y <= x

MinOf(S) == CHOOSE x \in S : \A y \in S : x <= y

\* number of elements of K above c
Above(K, c) == Cardinality({d \in K : d > c})

RECURSIVE SumOver(_, _)
SumOver(f, S) ==
    IF S = {} THEN 0
    ELSE LET x == CHOOSE y \in S : TRUE IN f[x] + SumOver(f, S \ {x})

\* position (from 0, strongest first) of the n highest ranks of K among all
\* n-subsets of the ranks 2..14 other than those in skip, compared from the
\* highest rank down
KickerIndex(K, n, skip) ==
    LET top == {c \in K : Above(K, c) < n}
        pos == [c \in top |-> (c - 2) - Cardinality({s \in skip : s < c})]
        N   == SumOver([c \in top |-> Binom[pos[c] + 1][n - Above(K, c)]], top)
        all == Binom[14 - Cardinality(skip)][n]
    IN  (all - 1) - N

\* position of five distinct non-straight ranks among the 1277 such hands
FiveIndex(F) ==
    LET c1 == MaxOf(F)
    IN  KickerIndex(F, 5, {}) - (15 - c1) - (IF c1 < 14 THEN 1 ELSE 0)

\* the rank of the best five-card hand among the cards of S (5 or more)
evaluate_cards(S) ==
    LET ranks  == {Value(c) : c \in S}
        cnt    == [r \in ranks |-> Cardinality({c \in S : Value(c) = r})]
        paired == Cardinality(ranks) < Cardinality(S)
        fsuits == {s \in 0..3 : Cardinality({c \in S : Suit(c) = s}) >= 5}
        F      == {Value(c) : c \in {d \in S : Suit(d) \in fsuits}}
        sfs    == IF fsuits = {} THEN {}
                  ELSE {h \in 5..14 : Window(h) \subseteq F}
        quads  == IF paired THEN {r \in ranks : cnt[r] = 4} ELSE {}
        trips  == IF paired THEN {r \in ranks : cnt[r] = 3} ELSE {}
        t      == MaxOf(trips)
        over   == {r \in ranks : r # t /\ cnt[r] >= 2}
        sts    == IF Cardinality(ranks) < 5 THEN {}
                  ELSE {h \in 5..14 : Window(h) \subseteq ranks}
        pairs  == IF paired THEN {r \in ranks : cnt[r] = 2} ELSE {}
        top2   == {p \in pairs : Above(pairs, p) < 2}
    IN  IF sfs # {} THEN 15 - MaxOf(sfs)
        ELSE IF quads # {} THEN
            LET q == MaxOf(quads)
            IN  11 + (14 - q) * 12 + KickerIndex(ranks \ {q}, 1, {q})
        ELSE IF trips # {} /\ over # {} THEN
            167 + (14 - t) * 12 + KickerIndex(over, 1, {t})
        ELSE IF fsuits # {} THEN 323 + FiveIndex(F)
        ELSE IF sts # {} THEN 1600 + (14 - MaxOf(sts))
        ELSE IF trips # {} THEN
            1610 + (14 - t) * 66 + KickerIndex(ranks \ {t}, 2, {t})
        ELSE IF Cardinality(pairs) >= 2 THEN
            2468 + KickerIndex(top2, 2, {}) * 11
                 + KickerIndex(ranks \ top2, 1, top2)
        ELSE IF pairs # {} THEN
            LET p == MaxOf(pairs)
            IN  3326 + (14 - p) * 220 + KickerIndex(ranks \ {p}, 3, {p})
        ELSE 6186 + FiveIndex(ranks)

\* fewest and most cards evaluate_cards accepts; any other count raises
MIN_CARDS == 5

MAX_CARDS == 7

\* the 9999 returned for too few cards and for an evaluator exception
WORST == 9999

\* ------------------------------------------------------------------------
\* PokerEngine (poker_engine.py)
\* ------------------------------------------------------------------------

\* an exception leaving a call, in place of the value returned
Raised == 0 - 2

\* evaluate_cards(*all_cards) raises: the library fails, or it is given a
\* number of cards it does not accept
evaluate_cards_raises(all_cards) ==
    \/ oracle_fails
    \/ Len(all_cards) < MIN_CARDS
    \/ Len(all_cards) > MAX_CARDS

\* evaluate_hand_strength without its except clause: the evaluator's
\* exception leaves the call
evaluate_hand_strength_uncaught(hole_cards, community_cards) ==
    LET all_cards == hole_cards \o community_cards
    IN  IF Len(all_cards) < MIN_CARDS THEN WORST
        ELSE IF evaluate_cards_raises(all_cards) THEN Raised
        ELSE evaluate_cards(SeqToSet(all_cards))

\* evaluate_hand_strength ranking fewer than 5 cards by their number and not
\* by the one sentinel: every card added ranks better
evaluate_hand_strength_by_count(hole_cards, community_cards) ==
    LET all_cards == hole_cards \o community_cards
    IN  IF Len(all_cards) < MIN_CARDS THEN WORST - Len(all_cards)
        ELSE IF evaluate_cards_raises(all_cards) THEN WORST
        ELSE evaluate_cards(SeqToSet(all_cards))

\* PokerEngine.evaluate_hand_strength: 9999 below five cards; 9999 from the
\* except clause when the oracle raises; the oracle's rank otherwise
evaluate_hand_strength(hole_cards, community_cards) ==
    LET all_cards == hole_cards \o community_cards
    IN  IF Len(all_cards) < MIN_CARDS THEN WORST
        ELSE IF evaluate_cards_raises(all_cards) THEN WORST
        ELSE evaluate_cards(SeqToSet(all_cards))

\* PokerEngine.count_rank_occurrences, as the count of one rank (0 if absent)
count_rank_occurrences(cards, r) ==
    Cardinality({i \in 1..Len(cards) : Value(cards[i]) = r})

\* suit_counts.get(suit, 0) of the loops over all_cards
suit_count(cards, s) ==
    Cardinality({i \in 1..Len(cards) : Suit(cards[i]) = s})

\* PokerEngine._find_best_possible_hand_strength_excluding_known: the lowest
\* rank over all pairs i < j of the remaining deck, starting from 9999; a
\* pair whose evaluation raises is skipped (except: continue)
find_best_possible_hand_strength_excluding_known(board, all_known_cards) ==
    LET remaining_deck == get_remaining_deck(all_known_cards)
        n == Len(remaining_deck)
        strengths == {evaluate_hand_strength(
                          <<remaining_deck[p[1]], remaining_deck[p[2]]>>, board) :
                      p \in {q \in (1..n) \X (1..n) : q[1] < q[2]}}
    IN  IF Len(board) > 5 THEN WORST
        ELSE MinOf((strengths \ {Raised}) \cup {WORST})

\* sorted(values): the elements of a set of integers in ascending order
RECURSIVE SortedSeq(_)
SortedSeq(S) ==
    IF S = {} THEN <<>>
    ELSE LET m == MinOf(S) IN <<m>> \o SortedSeq(S \ {m})

\* "no completing card" (completing_card = None)
None == -1

\* the hole-card test left out: every hand counts as using a hole card
uses_hole_card_unchecked(hole_cards, board) == TRUE

\* PokerEngine._uses_at_least_one_hole_card: on a five-card board, compares
\* the player's rank with the rank of the board plus the first two cards of
\* the remaining deck
uses_at_least_one_hole_card(hole_cards, board) ==
    IF Len(hole_cards) # 2 THEN FALSE
    ELSE IF Len(board) < 5 THEN TRUE
    ELSE LET all_cards == hole_cards \o board
             player_strength == evaluate_hand_strength(hole_cards, board)
             remaining == get_remaining_deck(all_cards)
             dummy_cards == SubSeq(remaining, 1, 2)
             board_only_strength == evaluate_hand_strength(dummy_cards, board)
         IN  IF Len(board) = 5 /\ Len(remaining) >= 2
                /\ board_only_strength <= player_strength
             THEN FALSE
             ELSE TRUE

\* the suits holding five or more of the cards (at most one for 7 cards);
\* flush_suit of _is_flush_nuts_scenario and _check_flush_nuts is its element
flush_suits(all_cards) == {s \in 0..3 : suit_count(all_cards, s) >= 5}

\* PokerEngine._has_straight_flush_potential on the sorted flush ranks
has_straight_flush_potential(flush_ranks) ==
    IF Len(flush_ranks) < 5 THEN FALSE
    ELSE \/ \E i \in 1..(Len(flush_ranks) - 4) :
                flush_ranks[i + 4] - flush_ranks[i] = 4
         \/ {14, 2, 3, 4, 5} \subseteq SeqToSet(flush_ranks)

\* PokerEngine._is_flush_nuts_scenario
is_flush_nuts_scenario(hole_cards, completed_board, completing_card) ==
    LET all_cards == hole_cards \o completed_board
        fs == flush_suits(all_cards)
        flush_suit == CHOOSE s \in fs : TRUE
        board_has_pairs ==
            \E r \in 2..14 : count_rank_occurrences(completed_board, r) >= 2
        flush_ranks ==
            SortedSeq({Value(c) : c \in {d \in SeqToSet(all_cards) :
                                            Suit(d) = flush_suit}})
    IN  IF fs = {} THEN FALSE
        ELSE IF board_has_pairs THEN FALSE
        ELSE IF has_straight_flush_potential(flush_ranks) THEN FALSE
        ELSE TRUE

\* PokerEngine._check_flush_nuts
check_flush_nuts(hole_cards, completed_board, completing_card) ==
    LET all_cards == hole_cards \o completed_board
        fs == flush_suits(all_cards)
        flush_suit == CHOOSE s \in fs : TRUE
        player_has_ace_of_suit ==
            \E i \in 1..Len(hole_cards) :
                Value(hole_cards[i]) = 14 /\ Suit(hole_cards[i]) = flush_suit
        completing_card_is_ace ==
            Value(completing_card) = 14 /\ Suit(completing_card) = flush_suit
        hole_cards_in_flush ==
            {i \in 1..Len(hole_cards) : Suit(hole_cards[i]) = flush_suit}
        original_board_flush_cards ==
            {i \in 1..Len(completed_board) :
                /\ Suit(completed_board[i]) = flush_suit
                /\ completed_board[i] # completing_card}
    IN  IF fs = {} THEN FALSE
        ELSE IF ~(player_has_ace_of_suit \/ completing_card_is_ace) THEN FALSE
        ELSE IF hole_cards_in_flush = {} THEN FALSE
        ELSE IF Cardinality(original_board_flush_cards)
                  + (IF Suit(completing_card) = flush_suit THEN 1 ELSE 0) >= 5
             THEN FALSE
        ELSE TRUE

\* the comparison both modes of is_nuts_when_completed end with (and
\* _check_for_river_nuts, _check_for_completed_nuts): the hand uses a hole
\* card and its rank is at most the best rank the remaining deck can make
nuts_by_search(hole_cards, board) ==
    IF ~uses_at_least_one_hole_card(hole_cards, board) THEN FALSE
    ELSE evaluate_hand_strength(hole_cards, board)
            <= find_best_possible_hand_strength_excluding_known(
                   board, hole_cards \o board)

\* PokerEngine.is_nuts_when_completed
is_nuts_when_completed(hole_cards, community_cards, completing_card) ==
    IF Len(hole_cards) # 2 THEN FALSE
    ELSE IF completing_card = None THEN
        IF Len(community_cards) # 5 THEN FALSE
        ELSE nuts_by_search(hole_cards, community_cards)
    ELSE LET completed_board == community_cards \o <<completing_card>>
         IN  IF Len(completed_board) > 5 THEN FALSE
             ELSE IF is_flush_nuts_scenario(hole_cards, completed_board,
                                            completing_card)
                  THEN check_flush_nuts(hole_cards, completed_board,
                                        completing_card)
             ELSE nuts_by_search(hole_cards, completed_board)

\* ------------------------------------------------------------------------
\* OutsDetector (outs_detector.py).  A candidate is <<card, draw_type>>; a
\* family's candidates are a sequence in the order the code appends them.
\* ------------------------------------------------------------------------

\* the sequences of ss concatenated: what nested loops append to one list
RECURSIVE Concat(_)
Concat(ss) ==
    IF ss = <<>> THEN <<>> ELSE Head(ss) \o Concat(Tail(ss))

\* the distinct elements of s in order of first appearance (dict key order)
RECURSIVE Distinct(_)
Distinct(s) ==
    IF s = <<>> THEN <<>>
    ELSE <<Head(s)>> \o Distinct(FilterSeq(Tail(s), SeqToSet(Tail(s)) \ {Head(s)}))

\* suit_cards / suit_counts keys: the suits held, in order of first appearance
suits_in_order(all_cards) ==
    Distinct([i \in 1..Len(all_cards) |-> Suit(all_cards[i])])

\* rank_counts keys: the ranks held, in order of first appearance
ranks_in_order(all_cards) ==
    Distinct([i \in 1..Len(all_cards) |-> Value(all_cards[i])])

\* the ranks held in one suit (suit_cards[suit])
suit_ranks(all_cards, s) ==
    {Value(c) : c \in {d \in SeqToSet(all_cards) : Suit(d) = s}}

\* [(str(card), draw_type) for card in remaining_deck if card in keep]
cards_as(remaining_deck, keep, draw_type) ==
    LET kept == FilterSeq(remaining_deck, keep)
    IN  [i \in 1..Len(kept) |-> <<kept[i], draw_type>>]

\* possible_straights without the wheel
possible_straights_no_wheel == <<6, 7, 8, 9, 10, 11, 12, 13, 14>>

\* possible_straights of _find_straight_outs, by high card; 5 is the wheel
possible_straights == <<6, 7, 8, 9, 10, 11, 12, 13, 14, 5>>

\* possible_straights of _find_straight_flush_outs: the royal window skipped
possible_straight_flushes == <<6, 7, 8, 9, 10, 11, 12, 13, 5>>

\* royal_ranks
royal_ranks == {14, 13, 12, 11, 10}

\* OutsDetector._find_royal_flush_outs
find_royal_flush_outs(hole_cards, community_cards) ==
    LET all_cards == hole_cards \o community_cards
        remaining_deck == get_remaining_deck(all_cards)
        suits == suits_in_order(all_cards)
        PerSuit(suit) ==
            LET royal_cards_held == suit_ranks(all_cards, suit) \cap royal_ranks
                missing_royal == SortedSeq(royal_ranks \ royal_cards_held)
            IN  IF Cardinality(royal_cards_held) >= 4
                THEN Concat([k \in 1..Len(missing_royal) |->
                         cards_as(remaining_deck,
                                  {MkCard(missing_royal[k], suit)},
                                  "royal flush")])
                ELSE <<>>
    IN  Concat([k \in 1..Len(suits) |-> PerSuit(suits[k])])

\* OutsDetector._find_straight_flush_outs
find_straight_flush_outs(hole_cards, community_cards) ==
    LET all_cards == hole_cards \o community_cards
        remaining_deck == get_remaining_deck(all_cards)
        suits == suits_in_order(all_cards)
        PerSuit(suit) ==
            LET ranks_set == suit_ranks(all_cards, suit)
                PerStraight(h) ==
                    LET missing == Window(h) \ ranks_set
                    IN  IF Cardinality(missing) = 1
                        THEN cards_as(remaining_deck,
                                      {MkCard(MaxOf(missing), suit)},
                                      "straight flush")
                        ELSE <<>>
            IN  Concat([k \in 1..Len(possible_straight_flushes) |->
                           PerStraight(possible_straight_flushes[k])])
    IN  Concat([k \in 1..Len(suits) |-> PerSuit(suits[k])])

\* _find_flush_outs proposing cards only for a suit that holds exactly 4
\* cards
find_flush_outs_draws_only(hole_cards, community_cards) ==
    LET all_cards == hole_cards \o community_cards
        remaining_deck == get_remaining_deck(all_cards)
        suits == suits_in_order(all_cards)
        PerSuit(suit) ==
            IF suit_count(all_cards, suit) = 4
            THEN cards_as(remaining_deck, {c \in 0..51 : Suit(c) = suit}, "flush")
            ELSE <<>>
    IN  Concat([k \in 1..Len(suits) |-> PerSuit(suits[k])])

\* OutsDetector._find_flush_outs
find_flush_outs(hole_cards, community_cards) ==
    LET all_cards == hole_cards \o community_cards
        remaining_deck == get_remaining_deck(all_cards)
        suits == suits_in_order(all_cards)
        PerSuit(suit) ==
            IF suit_count(all_cards, suit) >= 4
            THEN cards_as(remaining_deck, {c \in 0..51 : Suit(c) = suit}, "flush")
            ELSE <<>>
    IN  Concat([k \in 1..Len(suits) |-> PerSuit(suits[k])])

\* OutsDetector._classify_straight_draw
classify_straight_draw(completing_rank, current_ranks) == "straight"

\* OutsDetector._find_straight_outs.  straight_completing_ranks is a Python
\* set of ints, whose iteration order the language leaves open; the ranks are
\* taken in ascending order here.
find_straight_outs(hole_cards, community_cards) ==
    LET all_cards == hole_cards \o community_cards
        ranks == {Value(c) : c \in SeqToSet(all_cards)}
        remaining_deck == get_remaining_deck(all_cards)
        straight_completing_ranks ==
            SortedSeq({r \in 2..14 :
                \E k \in 1..Len(possible_straights) :
                    LET straight == Window(possible_straights[k])
                    IN  /\ straight \ ranks = {r}
                        /\ Cardinality(straight \cap ranks) = 4})
        PerRank(rank) ==
            cards_as(remaining_deck, {c \in 0..51 : Value(c) = rank},
                     classify_straight_draw(rank, ranks))
    IN  Concat([k \in 1..Len(straight_completing_ranks) |->
                   PerRank(straight_completing_ranks[k])])

\* _find_overcard_outs without the flush-draw gate: overcards are proposed
\* even when a suit holds exactly 4 of the known cards
find_overcard_outs_on_flush_draw(hole_cards, community_cards) ==
    LET straight_outs == find_straight_outs(hole_cards, community_cards)
        highest_board == MaxOf({Value(c) : c \in SeqToSet(community_cards)})
        remaining_deck == get_remaining_deck(hole_cards \o community_cards)
        PerHoleCard(hole_card) ==
            IF Value(hole_card) > highest_board
            THEN cards_as(remaining_deck,
                          {c \in 0..51 : Value(c) = Value(hole_card)},
                          "overcard")
            ELSE <<>>
    IN  IF community_cards = <<>> THEN <<>>
        ELSE IF Len(straight_outs) >= 4 THEN <<>>
        ELSE Concat([k \in 1..Len(hole_cards) |-> PerHoleCard(hole_cards[k])])

\* _find_overcard_outs looking at the first hole card only
find_overcard_outs_first_hole_card(hole_cards, community_cards) ==
    LET all_cards == hole_cards \o community_cards
        straight_outs == find_straight_outs(hole_cards, community_cards)
        highest_board == MaxOf({Value(c) : c \in SeqToSet(community_cards)})
        remaining_deck == get_remaining_deck(hole_cards \o community_cards)
    IN  IF community_cards = <<>> THEN <<>>
        ELSE IF \E s \in 0..3 : suit_count(all_cards, s) = 4 THEN <<>>
        ELSE IF Len(straight_outs) >= 4 THEN <<>>
        ELSE IF Value(hole_cards[1]) > highest_board
        THEN cards_as(remaining_deck,
                      {c \in 0..51 : Value(c) = Value(hole_cards[1])},
                      "overcard")
        ELSE <<>>

\* _find_overcard_outs taking the first community card for the highest one
find_overcard_outs_above_first_board_card(hole_cards, community_cards) ==
    LET all_cards == hole_cards \o community_cards
        straight_outs == find_straight_outs(hole_cards, community_cards)
        highest_board == Value(community_cards[1])
        remaining_deck == get_remaining_deck(hole_cards \o community_cards)
        PerHoleCard(hole_card) ==
            IF Value(hole_card) > highest_board
            THEN cards_as(remaining_deck,
                          {c \in 0..51 : Value(c) = Value(hole_card)},
                          "overcard")
            ELSE <<>>
    IN  IF community_cards = <<>> THEN <<>>
        ELSE IF \E s \in 0..3 : suit_count(all_cards, s) = 4 THEN <<>>
        ELSE IF Len(straight_outs) >= 4 THEN <<>>
        ELSE Concat([k \in 1..Len(hole_cards) |-> PerHoleCard(hole_cards[k])])

\* OutsDetector._find_overcard_outs
find_overcard_outs(hole_cards, community_cards) ==
    LET all_cards == hole_cards \o community_cards
        straight_outs == find_straight_outs(hole_cards, community_cards)
        highest_board == MaxOf({Value(c) : c \in SeqToSet(community_cards)})
        remaining_deck == get_remaining_deck(hole_cards \o community_cards)
        PerHoleCard(hole_card) ==
            IF Value(hole_card) > highest_board
            THEN cards_as(remaining_deck,
                          {c \in 0..51 : Value(c) = Value(hole_card)},
                          "overcard")
            ELSE <<>>
    IN  IF community_cards = <<>> THEN <<>>
        ELSE IF \E s \in 0..3 : suit_count(all_cards, s) = 4 THEN <<>>
        ELSE IF Len(straight_outs) >= 4 THEN <<>>
        ELSE Concat([k \in 1..Len(hole_cards) |-> PerHoleCard(hole_cards[k])])

\* _find_improvement_outs skipping a rank held twice only when that rank is
\* itself paired on the board
find_improvement_outs_board_pair_only(hole_cards, community_cards) ==
    LET all_cards == hole_cards \o community_cards
        remaining_deck == get_remaining_deck(all_cards)
        keys == ranks_in_order(all_cards)
        PerOtherRank(rank, other_rank) ==
            IF other_rank # rank
               /\ count_rank_occurrences(all_cards, other_rank) = 1
            THEN cards_as(remaining_deck,
                          {c \in 0..51 : Value(c) = other_rank},
                          "full house")
            ELSE <<>>
        PerRank(rank) ==
            LET count == count_rank_occurrences(all_cards, rank)
            IN  IF count = 2 THEN
                    IF count_rank_occurrences(community_cards, rank) >= 2
                    THEN <<>>
                    ELSE cards_as(remaining_deck,
                                  {c \in 0..51 : Value(c) = rank},
                                  "three of a kind")
                ELSE IF count = 3 THEN
                    cards_as(remaining_deck, {c \in 0..51 : Value(c) = rank},
                             "four of a kind")
                    \o Concat([k \in 1..Len(keys) |->
                                  PerOtherRank(rank, keys[k])])
                ELSE <<>>
    IN  Concat([k \in 1..Len(keys) |-> PerRank(keys[k])])

\* _find_improvement_outs without the full-house candidates of a rank held
\* three times
find_improvement_outs_no_full_house(hole_cards, community_cards) ==
    LET all_cards == hole_cards \o community_cards
        remaining_deck == get_remaining_deck(all_cards)
        board_has_pair ==
            \E r \in 2..14 : count_rank_occurrences(community_cards, r) >= 2
        keys == ranks_in_order(all_cards)
        PerRank(rank) ==
            LET count == count_rank_occurrences(all_cards, rank)
            IN  IF count = 2 THEN
                    IF board_has_pair
                       /\ count_rank_occurrences(community_cards, rank) >= 1
                    THEN <<>>
                    ELSE cards_as(remaining_deck,
                                  {c \in 0..51 : Value(c) = rank},
                                  "three of a kind")
                ELSE IF count = 3 THEN
                    cards_as(remaining_deck, {c \in 0..51 : Value(c) = rank},
                             "four of a kind")
                ELSE <<>>
    IN  Concat([k \in 1..Len(keys) |-> PerRank(keys[k])])

\* OutsDetector._find_improvement_outs
find_improvement_outs(hole_cards, community_cards) ==
    LET all_cards == hole_cards \o community_cards
        remaining_deck == get_remaining_deck(all_cards)
        board_has_pair ==
            \E r \in 2..14 : count_rank_occurrences(community_cards, r) >= 2
        keys == ranks_in_order(all_cards)
        PerOtherRank(rank, other_rank) ==
            IF other_rank # rank
               /\ count_rank_occurrences(all_cards, other_rank) = 1
            THEN cards_as(remaining_deck,
                          {c \in 0..51 : Value(c) = other_rank},
                          "full house")
            ELSE <<>>
        PerRank(rank) ==
            LET count == count_rank_occurrences(all_cards, rank)
            IN  IF count = 2 THEN
                    IF board_has_pair
                       /\ count_rank_occurrences(community_cards, rank) >= 1
                    THEN <<>>
                    ELSE cards_as(remaining_deck,
                                  {c \in 0..51 : Value(c) = rank},
                                  "three of a kind")
                ELSE IF count = 3 THEN
                    cards_as(remaining_deck, {c \in 0..51 : Value(c) = rank},
                             "four of a kind")
                    \o Concat([k \in 1..Len(keys) |->
                                  PerOtherRank(rank, keys[k])])
                ELSE <<>>
    IN  Concat([k \in 1..Len(keys) |-> PerRank(keys[k])])

\* _find_two_pair_outs without the requirement that the board holds a pair
find_two_pair_outs_any_board(hole_cards, community_cards) ==
    LET all_cards == hole_cards \o community_cards
        remaining_deck == get_remaining_deck(all_cards)
        paired_ranks == {r \in 2..14 : count_rank_occurrences(all_cards, r) >= 2}
        PerHoleCard(hole_card) ==
            IF count_rank_occurrences(all_cards, Value(hole_card)) >= 2
            THEN <<>>
            ELSE cards_as(remaining_deck,
                          {c \in 0..51 : Value(c) = Value(hole_card)},
                          "two pair")
    IN  IF Len(community_cards) = 0 THEN <<>>
        ELSE IF Cardinality(paired_ranks) >= 2 THEN <<>>
        ELSE Concat([k \in 1..Len(hole_cards) |-> PerHoleCard(hole_cards[k])])

\* OutsDetector._find_two_pair_outs
find_two_pair_outs(hole_cards, community_cards) ==
    LET all_cards == hole_cards \o community_cards
        remaining_deck == get_remaining_deck(all_cards)
        paired_ranks == {r \in 2..14 : count_rank_occurrences(all_cards, r) >= 2}
        board_has_pair ==
            \E r \in 2..14 : count_rank_occurrences(community_cards, r) >= 2
        PerHoleCard(hole_card) ==
            IF count_rank_occurrences(all_cards, Value(hole_card)) >= 2
            THEN <<>>
            ELSE IF ~board_has_pair THEN <<>>
            ELSE cards_as(remaining_deck,
                          {c \in 0..51 : Value(c) = Value(hole_card)},
                          "two pair")
    IN  IF Len(community_cards) = 0 THEN <<>>
        ELSE IF Cardinality(paired_ranks) >= 2 THEN <<>>
        ELSE Concat([k \in 1..Len(hole_cards) |-> PerHoleCard(hole_cards[k])])

\* the validation left out: every candidate counts as an out
validates_as_out_always(hole_cards, community_cards, card, current_strength) ==
    TRUE

\* the validation accepting a card that leaves the rank unchanged
validates_as_out_or_ties(hole_cards, community_cards, card, current_strength) ==
    evaluate_hand_strength(hole_cards, community_cards \o <<card>>)
        <= current_strength

\* OutsDetector._validates_as_out
validates_as_out(hole_cards, community_cards, card, current_strength) ==
    evaluate_hand_strength(hole_cards, community_cards \o <<card>>)
        < current_strength

\* the membership test left out: no card counts as already stored
dict_has_never(outs_dict, card) == FALSE

\* card_str in outs_dict
dict_has(outs_dict, card) ==
    \E i \in 1..Len(outs_dict) : outs_dict[i].card = card

\* outs_dict[card_str] = draw_type: a dict keeps one entry per key, a new key
\* going last
dict_set(outs_dict, card, draw_type) ==
    IF dict_has(outs_dict, card)
    THEN [i \in 1..Len(outs_dict) |->
             IF outs_dict[i].card = card
             THEN [card |-> card, draw_type |-> draw_type]
             ELSE outs_dict[i]]
    ELSE Append(outs_dict, [card |-> card, draw_type |-> draw_type])

\* the loop over the royal-flush candidates (find_outs, lines 33-35): no
\* membership test, every validated candidate is stored as 'royal flush'
RECURSIVE add_royal(_, _, _, _, _)
add_royal(outs_dict, cands, hole_cards, community_cards, current_strength) ==
    IF cands = <<>> THEN outs_dict
    ELSE add_royal(
            IF validates_as_out(hole_cards, community_cards, Head(cands)[1],
                                current_strength)
            THEN dict_set(outs_dict, Head(cands)[1], "royal flush")
            ELSE outs_dict,
            Tail(cands), hole_cards, community_cards, current_strength)

\* the loop over any later family's candidates (find_outs, lines 39-75): a
\* candidate is stored only if its card is not yet a key and it validates
RECURSIVE add_family(_, _, _, _, _)
add_family(outs_dict, cands, hole_cards, community_cards, current_strength) ==
    IF cands = <<>> THEN outs_dict
    ELSE add_family(
            IF /\ ~dict_has(outs_dict, Head(cands)[1])
               /\ validates_as_out(hole_cards, community_cards, Head(cands)[1],
                                   current_strength)
            THEN dict_set(outs_dict, Head(cands)[1], Head(cands)[2])
            ELSE outs_dict,
            Tail(cands), hole_cards, community_cards, current_strength)

\* the candidates with the draw type find_outs stores for the family
relabel(cands, draw_type) ==
    [i \in 1..Len(cands) |-> <<cands[i][1], draw_type>>]

\* find_outs with the flush family tried before the straight-flush family
find_outs_flush_first(hole_cards, community_cards) ==
    LET cur == evaluate_hand_strength(hole_cards, community_cards)
        d1 == add_royal(<<>>, find_royal_flush_outs(hole_cards, community_cards),
                        hole_cards, community_cards, cur)
        d2 == add_family(d1, find_flush_outs(hole_cards, community_cards),
                         hole_cards, community_cards, cur)
        d3 == add_family(d2, relabel(find_straight_flush_outs(hole_cards,
                                        community_cards), "straight flush"),
                         hole_cards, community_cards, cur)
        d4 == add_family(d3, find_straight_outs(hole_cards, community_cards),
                         hole_cards, community_cards, cur)
        d5 == add_family(d4, relabel(find_overcard_outs(hole_cards,
                                        community_cards), "pair"),
                         hole_cards, community_cards, cur)
        d6 == add_family(d5, find_improvement_outs(hole_cards, community_cards),
                         hole_cards, community_cards, cur)
        d7 == add_family(d6, relabel(find_two_pair_outs(hole_cards,
                                        community_cards), "two pair"),
                         hole_cards, community_cards, cur)
    IN  d7

\* OutsDetector.find_outs: the families in the order of the code, then the
\* dict's items as a list
find_outs(hole_cards, community_cards) ==
    LET cur == evaluate_hand_strength(hole_cards, community_cards)
        d1 == add_royal(<<>>, find_royal_flush_outs(hole_cards, community_cards),
                        hole_cards, community_cards, cur)
        d2 == add_family(d1, relabel(find_straight_flush_outs(hole_cards,
                                        community_cards), "straight flush"),
                         hole_cards, community_cards, cur)
        d3 == add_family(d2, find_flush_outs(hole_cards, community_cards),
                         hole_cards, community_cards, cur)
        d4 == add_family(d3, find_straight_outs(hole_cards, community_cards),
                         hole_cards, community_cards, cur)
        d5 == add_family(d4, relabel(find_overcard_outs(hole_cards,
                                        community_cards), "pair"),
                         hole_cards, community_cards, cur)
        d6 == add_family(d5, find_improvement_outs(hole_cards, community_cards),
                         hole_cards, community_cards, cur)
        d7 == add_family(d6, relabel(find_two_pair_outs(hole_cards,
                                        community_cards), "two pair"),
                         hole_cards, community_cards, cur)
    IN  d7

\* ------------------------------------------------------------------------
\* PotOddsCalculator (pot_odds_calculator.py).  A probability is an exact
\* fraction [num, den] with den > 0; Python computes the same expressions in
\* binary floating point.
\* ------------------------------------------------------------------------

Rat(n, d) == [num |-> n, den |-> d]

RatMul(a, b) == Rat(a.num * b.num, a.den * b.den)

RatSub(a, b) == Rat(a.num * b.den - b.num * a.den, a.den * b.den)

RatDiv(a, b) == Rat(a.num * b.den, a.den * b.num)

\* PotOddsCalculator._calculate_flop_probability
calculate_flop_probability(num_outs) ==
    IF num_outs <= 0 THEN Rat(0, 1)
    ELSE IF num_outs >= 47 THEN Rat(1, 1)
    ELSE LET miss_turn == Rat(47 - num_outs, 47)
             miss_river == Rat(46 - num_outs, 46)
             miss_both == RatMul(miss_turn, miss_river)
         IN  RatSub(Rat(1, 1), miss_both)

\* the turn formula over the flop's 47 unseen cards
calculate_turn_probability_of_47(num_outs) ==
    IF num_outs <= 0 THEN Rat(0, 1)
    ELSE IF num_outs >= 47 THEN Rat(1, 1)
    ELSE Rat(num_outs, 47)

\* PotOddsCalculator._calculate_turn_probability
calculate_turn_probability(num_outs) ==
    IF num_outs <= 0 THEN Rat(0, 1)
    ELSE IF num_outs >= 46 THEN Rat(1, 1)
    ELSE Rat(num_outs, 46)

\* truncation to tenths in place of rounding
round_tenths_down(ratio, tie_up) == (10 * ratio.num) \div ratio.den

\* round(ratio, 1), in tenths.  round() gives the nearest tenth; when ratio
\* lies exactly halfway between two tenths the floating-point error of the
\* division decides which one the build produces, so the caller supplies
\* tie_up (TRUE: the upper one).
round_tenths(ratio, tie_up) ==
    LET x10 == 10 * ratio.num
        fl  == x10 \div ratio.den
        rem == x10 % ratio.den
    IN  IF 2 * rem > ratio.den THEN fl + 1
        ELSE IF 2 * rem = ratio.den THEN (IF tie_up THEN fl + 1 ELSE fl)
        ELSE fl

\* PotOddsCalculator._format_pot_odds_ratio
format_pot_odds_ratio(win_probability, tie_up) ==
    IF win_probability.num <= 0 THEN "999.0:1"
    ELSE IF win_probability.num >= win_probability.den THEN "0.0:1"
    ELSE LET lose_probability == RatSub(Rat(1, 1), win_probability)
             ratio == RatDiv(lose_probability, win_probability)
             ratio_rounded == round_tenths(ratio, tie_up)
         IN  IF ratio_rounded % 10 = 0
             THEN ToString(ratio_rounded \div 10) \o ":1"
             ELSE ToString(ratio_rounded \div 10) \o "."
                      \o ToString(ratio_rounded % 10) \o ":1"

\* _check_for_river_nuts without its hole-card test: a hand that only plays
\* the board counts as the nuts
check_for_river_nuts_board_plays(hole_cards, community_cards) ==
    IF Len(hole_cards) # 2 \/ Len(community_cards) # 5 THEN FALSE
    ELSE evaluate_hand_strength(hole_cards, community_cards)
            <= find_best_possible_hand_strength_excluding_known(
                   community_cards, hole_cards \o community_cards)

\* PotOddsCalculator._check_for_river_nuts
check_for_river_nuts(hole_cards, community_cards) ==
    IF Len(hole_cards) # 2 \/ Len(community_cards) # 5 THEN FALSE
    ELSE LET player_hand_strength ==
                 evaluate_hand_strength(hole_cards, community_cards)
             all_known_cards == hole_cards \o community_cards
         IN  IF ~uses_at_least_one_hole_card(hole_cards, community_cards)
             THEN FALSE
             ELSE player_hand_strength
                     <= find_best_possible_hand_strength_excluding_known(
                            community_cards, all_known_cards)

\* _check_for_completed_nuts with < for <=: a hand an opponent can tie is
\* not the nuts
check_for_completed_nuts_strict(hole_cards, community_cards) ==
    IF Len(hole_cards) # 2 THEN FALSE
    ELSE IF Len(community_cards) < 3 THEN FALSE
    ELSE IF ~uses_at_least_one_hole_card(hole_cards, community_cards)
         THEN FALSE
    ELSE evaluate_hand_strength(hole_cards, community_cards)
            < find_best_possible_hand_strength_excluding_known(
                  community_cards, hole_cards \o community_cards)

\* PotOddsCalculator._check_for_completed_nuts
check_for_completed_nuts(hole_cards, community_cards) ==
    IF Len(hole_cards) # 2 THEN FALSE
    ELSE IF Len(community_cards) < 3 THEN FALSE
    ELSE LET player_hand_strength ==
                 evaluate_hand_strength(hole_cards, community_cards)
             all_known_cards == hole_cards \o community_cards
         IN  IF ~uses_at_least_one_hole_card(hole_cards, community_cards)
             THEN FALSE
             ELSE player_hand_strength
                     <= find_best_possible_hand_strength_excluding_known(
                            community_cards, all_known_cards)

\* no chance of winning whatever the number of outs
phase_probability_zero(cards_seen, num_outs) == Rat(0, 1)

\* the flop formula at every phase: the turn is not told apart
phase_probability_flop_only(cards_seen, num_outs) ==
    calculate_flop_probability(num_outs)

\* the probability calculate_pot_odds uses for num_outs outs (lines 56-62)
phase_probability(cards_seen, num_outs) ==
    IF cards_seen = 5 THEN calculate_flop_probability(num_outs)
    ELSE IF cards_seen = 6 THEN calculate_turn_probability(num_outs)
    ELSE calculate_flop_probability(num_outs)

\* PotOddsCalculator.calculate_pot_odds: (pot_odds_ratio, outs_list), and
\* whether the outs detector was called on the way.  ratios is the set of
\* strings the formatter can return: one, or two when the ratio lies
\* exactly between two tenths
calculate_pot_odds(hole_cards, community_cards) ==
    LET cards_seen == Len(hole_cards) + Len(community_cards)
        found == find_outs(hole_cards, community_cards)
        win_probability == phase_probability(cards_seen, Len(found))
    IN  IF cards_seen = 7 THEN
            IF check_for_river_nuts(hole_cards, community_cards)
            THEN [ratios |-> {"NUTS!"}, outs |-> <<>>, consulted |-> FALSE]
            ELSE [ratios |-> {"999.0:1"}, outs |-> <<>>, consulted |-> FALSE]
        ELSE IF cards_seen >= 5
                /\ check_for_completed_nuts(hole_cards, community_cards)
        THEN [ratios |-> {"NUTS!"}, outs |-> <<>>, consulted |-> FALSE]
        ELSE IF found = <<>>
        THEN [ratios |-> {"999.0:1"}, outs |-> <<>>, consulted |-> TRUE]
        ELSE [ratios |-> {format_pot_odds_ratio(win_probability, tie_up) :
                              tie_up \in BOOLEAN},
              outs |-> found, consulted |-> TRUE]

\* ------------------------------------------------------------------------
\* Inputs
\* ------------------------------------------------------------------------

\* Card.__init__ on the rank and suit characters
Card(rank, suit) ==
    MkCard((CHOOSE i \in 1..13 : RANKS[i] = rank) + 1,
           (CHOOSE j \in 1..4 : SUITS[j] = suit) - 1)

\* the elements of s at the indices I, in the order of s
Pick(s, I) ==
    LET idx == SortedSeq(I) IN [k \in 1..Len(idx) |-> s[idx[k]]]

\* ------------------------------------------------------------------------
\* Request validation and the /api/calculate handler (models.py, main.py).
\* A card string is the sequence of its characters.
\* ------------------------------------------------------------------------

RankChars == SeqToSet(RANKS)

SuitChars == SeqToSet(SUITS)

\* CARD_PATTERN.match(card) for ^[2-9TJQKA][shdc]$: $ also matches before a
\* newline that ends the string
CARD_PATTERN_match(card) ==
    /\ Len(card) \in {2, 3}
    /\ card[1] \in RankChars
    /\ card[2] \in SuitChars
    /\ Len(card) = 3 => card[3] = "\n"

\* CalculateRequest.validate_cards returns (TRUE) or raises ValueError
validate_cards(cards) ==
    IF cards = <<>> THEN TRUE
    ELSE IF \E i \in 1..Len(cards) : ~CARD_PATTERN_match(cards[i]) THEN FALSE
    ELSE Len(cards) = Cardinality(SeqToSet(cards))

\* CalculateRequest.validate_no_duplicate_across_all_cards
validate_no_duplicate_across_all_cards(hole_cards, community_cards) ==
    LET all_cards == hole_cards \o community_cards
    IN  Len(all_cards) = Cardinality(SeqToSet(all_cards))

\* Field(min_length=2) alone: three or more hole cards are let through
hole_cards_length_at_least_2(hole_cards) == Len(hole_cards) >= 2

\* Field(min_length=2, max_length=2) of hole_cards
hole_cards_length(hole_cards) == Len(hole_cards) = 2

\* most community cards of a hand (2 hole + 0..5 community)
MaxCommunity == 5

\* Field(min_length=0, max_length=5) of community_cards
community_cards_length(community_cards) == Len(community_cards) <= MaxCommunity

\* the request body passes CalculateRequest: field constraints, then the
\* field validators, then the model validator
CalculateRequest(req) ==
    /\ hole_cards_length(req.hole_cards)
    /\ community_cards_length(req.community_cards)
    /\ validate_cards(req.hole_cards)
    /\ validate_cards(req.community_cards)
    /\ validate_no_duplicate_across_all_cards(req.hole_cards,
                                              req.community_cards)

\* Card(card_str) raises ValueError
Card_raises(card_str) ==
    \/ Len(card_str) # 2
    \/ card_str[1] \notin RankChars
    \/ card_str[2] \notin SuitChars

\* PokerEngine.parse_cards on strings none of which makes Card raise
parse_cards(card_strings) ==
    [i \in 1..Len(card_strings) |->
        Card(card_strings[i][1], card_strings[i][2])]

\* the try block of the handler raises ValueError before the calculator is
\* called: a card string Card rejects, or a string given twice
handler_raises_ValueError(req) ==
    LET all_card_strs == req.hole_cards \o req.community_cards
    IN  \/ \E i \in 1..Len(all_card_strs) : Card_raises(all_card_strs[i])
        \/ Len(all_card_strs) # Cardinality(SeqToSet(all_card_strs))

\* cards per pool from which the classifier's hands are drawn
PoolSize == 7

\* board cards per hand pool from which the evaluator's and the
\* orchestrator's boards are drawn
BoardSize == 5

\* largest number of outs given to the probability formulas
MaxOutsInput == 50

\* largest denominator of a probability given to the formatter
MaxDen == 12

\* pools for the outs classifier: suited broadway cards (royal, straight
\* flush and flush draws), pairs and sets, and rainbow connectors
OutsPools ==
    << <<Card("A","s"), Card("K","s"), Card("Q","s"), Card("J","s"),
         Card("T","s"), Card("9","s"), Card("2","h"), Card("8","s")>>,
       <<Card("K","s"), Card("K","c"), Card("K","d"), Card("8","h"),
         Card("8","d"), Card("3","s"), Card("A","h"), Card("3","c")>>,
       <<Card("9","s"), Card("8","h"), Card("5","c"), Card("6","d"),
         Card("K","s"), Card("7","c"), Card("A","d"), Card("Q","c")>> >>

\* every hand of one pool: two hole cards and up to five other cards of the
\* pool as the board, both in pool order
PoolHands(pool) ==
    LET cards == SubSeq(pool, 1, PoolSize)
        n == Len(cards)
    IN  {<<Pick(cards, H), Pick(cards, B)>> :
            <<H, B>> \in {hb \in (SUBSET (1..n)) \X (SUBSET (1..n)) :
                            /\ Cardinality(hb[1]) = 2
                            /\ hb[1] \cap hb[2] = {}
                            /\ Cardinality(hb[2]) <= MaxCommunity}}

OutsHands == UNION {PoolHands(OutsPools[k]) : k \in 1..Len(OutsPools)}

\* pools for the nuts evaluator and the orchestrator: three cards the hole
\* cards are drawn from, and the cards the board is drawn from
HandPools ==
    << [holes |-> <<Card("A","s"), Card("2","s"), Card("7","h")>>,
        board |-> <<Card("K","s"), Card("9","s"), Card("5","s"),
                    Card("6","s"), Card("7","s"), Card("K","d")>>],
       [holes |-> <<Card("A","h"), Card("A","d"), Card("2","c")>>,
        board |-> <<Card("K","s"), Card("K","h"), Card("K","d"),
                    Card("K","c"), Card("A","s"), Card("A","c")>>],
       [holes |-> <<Card("K","s"), Card("Q","d"), Card("8","c")>>,
        board |-> <<Card("A","h"), Card("J","c"), Card("T","s"),
                    Card("2","s"), Card("7","d"), Card("3","h")>>] >>

\* pools of made hands and straight draws for the outs classifier: a rainbow
\* run 7 to Q with a paired ten, a rainbow wheel with a paired three, a
\* heart flush K-9-8-5-3 with two off-suit cards, and a rainbow 8-9-T-J
\* that seven cards do not complete
DrawPools ==
    << <<Card("8","h"), Card("9","s"), Card("T","c"), Card("J","d"),
         Card("Q","h"), Card("T","d"), Card("7","s"), Card("K","c")>>,
       <<Card("A","d"), Card("2","c"), Card("3","h"), Card("4","s"),
         Card("5","d"), Card("3","d"), Card("6","c"), Card("9","h")>>,
       <<Card("K","h"), Card("9","h"), Card("8","h"), Card("5","h"),
         Card("3","h"), Card("Q","d"), Card("9","c"), Card("A","h")>>,
       <<Card("8","h"), Card("9","s"), Card("T","c"), Card("J","d"),
         Card("2","h"), Card("T","d"), Card("3","s"), Card("K","c")>> >>

DrawHands == UNION {PoolHands(DrawPools[k]) : k \in 1..Len(DrawPools)}

\* cards of each pool the reordered hands are drawn from
OrderPoolSize == 5

\* the orderings of a set of cards
Orderings(S) ==
    {f \in [1..Cardinality(S) -> S] :
        \A i, j \in 1..Cardinality(S) : f[i] = f[j] => i = j}

\* every hand of the first OrderPoolSize cards of one pool, hole cards and
\* community cards in every order
ReorderedHands(pool) ==
    LET cards == SeqToSet(SubSeq(pool, 1, OrderPoolSize))
    IN  UNION {Orderings(H) \X Orderings(B) :
                  <<H, B>> \in {hb \in (SUBSET cards) \X (SUBSET cards) :
                                  /\ Cardinality(hb[1]) = 2
                                  /\ hb[1] \cap hb[2] = {}
                                  /\ Cardinality(hb[2]) <= MaxCommunity}}

OrderHands == UNION {ReorderedHands(OutsPools[k]) : k \in 1..Len(OutsPools)}

\* callers sharing the one engine
NumCallers == 2

\* the calls the concurrent callers make: <<operation, hole_cards,
\* community_cards, completing_card>>
ConcurrentCalls ==
    { <<"find_outs", <<Card("K","s"), Card("A","d")>>,
        <<Card("9","s"), Card("8","h"), Card("5","c")>>, None>>,
      <<"find_outs", <<Card("A","s"), Card("K","s")>>,
        <<Card("Q","s"), Card("J","s"), Card("2","h")>>, None>>,
      <<"calculate_pot_odds", <<Card("K","c"), Card("Q","d")>>,
        <<Card("9","h"), Card("8","d")>>, None>>,
      <<"is_nuts_when_completed", <<Card("A","s"), Card("2","s")>>,
        <<Card("K","s"), Card("9","s"), Card("5","s")>>, Card("6","s")>> }

\* cards the hands given to evaluate_hand_strength are drawn from
StrengthPoolSize == 8

\* most community cards given to evaluate_hand_strength and to the search:
\* one more than a board can hold
MaxBoardGiven == 6

StrengthPool ==
    <<Card("A","s"), Card("K","s"), Card("K","d"), Card("Q","s"),
      Card("J","s"), Card("T","s"), Card("7","h"), Card("7","c"),
      Card("2","d"), Card("2","c")>>

\* hands for evaluate_hand_strength: up to two hole cards and up to
\* MaxBoardGiven other cards of the pool, so 0 to 8 cards in all
StrengthHands ==
    LET cards == SubSeq(StrengthPool, 1, StrengthPoolSize)
        n == Len(cards)
    IN  {<<Pick(cards, H), Pick(cards, B)>> :
            <<H, B>> \in {hb \in (SUBSET (1..n)) \X (SUBSET (1..n)) :
                            /\ Cardinality(hb[1]) <= 2
                            /\ hb[1] \cap hb[2] = {}
                            /\ Cardinality(hb[2]) <= MaxBoardGiven}}

\* hands for the search: the first two cards of the pool as hole cards and
\* the next 0 to MaxBoardGiven cards as the board
SearchHands ==
    {<<SubSeq(StrengthPool, 1, 2), SubSeq(StrengthPool, 3, 2 + k)>> :
        k \in 0..MaxBoardGiven}

\* most hole-card strings of a request
MaxHoleTokens == 3

\* most community-card strings of a request built from the tokens below
MaxBoardTokens == 2

\* card strings requests are made of: cards, and strings that are no card
Tokens ==
    { <<"A", "s">>, <<"K", "h">>, <<"Q", "c">>,
      <<"X", "x">>, <<"A">>, <<"A", "s", "\n">> }

\* community lists beside those built from the tokens: a flop, a river
\* board and a list of six cards
LongerBoards ==
    { << <<"9", "h">>, <<"8", "s">>, <<"6", "c">> >>,
      << <<"9", "h">>, <<"8", "s">>, <<"6", "c">>, <<"5", "d">>,
         <<"A", "s">> >>,
      << <<"9", "h">>, <<"8", "s">>, <<"6", "c">>, <<"5", "d">>,
         <<"4", "h">>, <<"3", "s">> >> }

ListsOf(S, n) == UNION {[1..k -> S] : k \in 0..n}

\* the request bodies
Requests ==
    {[hole_cards |-> h, community_cards |-> c] :
        <<h, c>> \in ListsOf(Tokens, MaxHoleTokens)
                       \X (ListsOf(Tokens, MaxBoardTokens) \cup LongerBoards)}

\* the hands of one hand pool with their completing card (None: terminal
\* mode): <<hole, community, completing>>
NutsCalls(pool) ==
    LET cards == SubSeq(pool.board, 1, BoardSize)
        n == Len(cards)
    IN  {<<Pick(pool.holes, H), Pick(cards, B),
           IF x = 0 THEN None ELSE cards[x]>> :
            <<H, B, x>> \in {hbx \in (SUBSET (1..3)) \X (SUBSET (1..n)) \X (0..n) :
                            /\ Cardinality(hbx[1]) = 2
                            /\ hbx[3] \notin hbx[2]
                            /\ Cardinality(hbx[2]) <= MaxCommunity}}

NutsInputs == UNION {NutsCalls(HandPools[k]) : k \in 1..Len(HandPools)}

OddsInputs == {<<c[1], c[2]>> : c \in {d \in NutsInputs : d[3] = None}}

ProbabilityInputs ==
    {Rat(p, q) : <<p, q>> \in {pq \in ((0 - 1)..(MaxDen + 1)) \X (1..MaxDen) :
                                 pq[1] <= pq[2] + 1}}

\* ------------------------------------------------------------------------
\* State: one call of one operation on one input, and what it returned
\* ------------------------------------------------------------------------

VARIABLES
    call,             \* the operation called
    pc,               \* "ready" before the call runs, "done" after
    hole,             \* hole_cards
    community,        \* community_cards
    completing,       \* completing_card, or None
    num_outs,         \* argument of the probability formulas
    win_probability,  \* argument of the formatter
    outs,             \* the outs list returned
    ratio,            \* the ratio string returned
    nuts,             \* the boolean returned by the nuts evaluator
    prob,             \* the probability returned
    consulted,        \* whether calculate_pot_odds called find_outs
    again,            \* the outs list a second find_outs call returned
    strength,         \* the rank returned by evaluate_hand_strength / the search
    callers,          \* the concurrent calls on the shared engine
    request,          \* the body of a POST /api/calculate request
    status,           \* the HTTP status of the response, 0 before it
    invoked           \* whether the handler called calculator.calculate_pot_odds

vars == <<call, pc, hole, community, completing, num_outs, win_probability,
          outs, ratio, nuts, prob, consulted, engine_deck, oracle_fails,
          again, strength, callers, request, status, invoked>>

\* what the single-call specifications leave alone
others == <<oracle_fails, again, strength, callers, request, status, invoked>>

NoRequest == [hole_cards |-> <<>>, community_cards |-> <<>>]

NoResult ==
    /\ engine_deck = deck
    /\ pc = "ready"
    /\ outs = <<>>
    /\ ratio = ""
    /\ nuts = FALSE
    /\ prob = Rat(0, 1)
    /\ consulted = FALSE
    /\ again = <<>>
    /\ strength = None
    /\ status = 0
    /\ invoked = FALSE

\* a working evaluator, no concurrent callers and no HTTP request
Direct ==
    /\ oracle_fails = FALSE
    /\ callers = <<>>
    /\ request = NoRequest

InitOuts ==
    /\ call = "find_outs"
    /\ \E h \in OutsHands : hole = h[1] /\ community = h[2]
    /\ completing = None
    /\ num_outs = 0
    /\ win_probability = Rat(0, 1)
    /\ NoResult
    /\ Direct

InitNuts ==
    /\ call = "is_nuts_when_completed"
    /\ \E h \in NutsInputs :
          hole = h[1] /\ community = h[2] /\ completing = h[3]
    /\ num_outs = 0
    /\ win_probability = Rat(0, 1)
    /\ NoResult
    /\ Direct

InitOdds ==
    /\ call = "calculate_pot_odds"
    /\ \E h \in OddsInputs : hole = h[1] /\ community = h[2]
    /\ completing = None
    /\ num_outs = 0
    /\ win_probability = Rat(0, 1)
    /\ NoResult
    /\ Direct

InitProb ==
    /\ call \in {"calculate_flop_probability", "calculate_turn_probability",
                 "format_pot_odds_ratio"}
    /\ hole = <<>>
    /\ community = <<>>
    /\ completing = None
    /\ IF call = "format_pot_odds_ratio"
       THEN num_outs = 0 /\ win_probability \in ProbabilityInputs
       ELSE num_outs \in (0 - 2)..MaxOutsInput /\ win_probability = Rat(0, 1)
    /\ NoResult
    /\ Direct

FindOuts ==
    /\ call = "find_outs" /\ pc = "ready"
    /\ outs' = find_outs(hole, community)
    /\ engine_deck' = deck_after_get_remaining_deck(engine_deck,
                                                    hole \o community)
    /\ pc' = "done"
    /\ UNCHANGED <<call, hole, community, completing, num_outs,
                   win_probability, ratio, nuts, prob, consulted>>
    /\ UNCHANGED others

IsNutsWhenCompleted ==
    /\ call = "is_nuts_when_completed" /\ pc = "ready"
    /\ nuts' = is_nuts_when_completed(hole, community, completing)
    /\ engine_deck' = deck_after_get_remaining_deck(engine_deck,
                                                    hole \o community)
    /\ pc' = "done"
    /\ UNCHANGED <<call, hole, community, completing, num_outs,
                   win_probability, outs, ratio, prob, consulted>>
    /\ UNCHANGED others

CalculatePotOdds ==
    /\ call = "calculate_pot_odds" /\ pc = "ready"
    /\ \E r \in {calculate_pot_odds(hole, community)} :
          /\ ratio' \in r.ratios
          /\ outs' = r.outs
          /\ consulted' = r.consulted
    /\ engine_deck' = deck_after_get_remaining_deck(engine_deck,
                                                    hole \o community)
    /\ pc' = "done"
    /\ UNCHANGED <<call, hole, community, completing, num_outs,
                   win_probability, nuts, prob>>
    /\ UNCHANGED others

CalculateFlopProbability ==
    /\ call = "calculate_flop_probability" /\ pc = "ready"
    /\ prob' = calculate_flop_probability(num_outs)
    /\ pc' = "done"
    /\ UNCHANGED <<call, hole, community, completing, num_outs,
                   win_probability, outs, ratio, nuts, consulted>>
    /\ UNCHANGED <<engine_deck, others>>

CalculateTurnProbability ==
    /\ call = "calculate_turn_probability" /\ pc = "ready"
    /\ prob' = calculate_turn_probability(num_outs)
    /\ pc' = "done"
    /\ UNCHANGED <<call, hole, community, completing, num_outs,
                   win_probability, outs, ratio, nuts, consulted>>
    /\ UNCHANGED <<engine_deck, others>>

FormatPotOddsRatio ==
    /\ call = "format_pot_odds_ratio" /\ pc = "ready"
    /\ \E r \in {format_pot_odds_ratio(win_probability, tie_up) :
                     tie_up \in BOOLEAN} :
          ratio' = r
    /\ pc' = "done"
    /\ UNCHANGED <<call, hole, community, completing, num_outs,
                   win_probability, outs, nuts, prob, consulted>>
    /\ UNCHANGED <<engine_deck, others>>

NextProb ==
    \/ CalculateFlopProbability
    \/ CalculateTurnProbability
    \/ FormatPotOddsRatio

\* find_outs called on the made hands and the straight draws
InitDraws ==
    /\ call = "find_outs"
    /\ \E h \in DrawHands : hole = h[1] /\ community = h[2]
    /\ completing = None
    /\ num_outs = 0
    /\ win_probability = Rat(0, 1)
    /\ NoResult
    /\ Direct

\* find_outs called twice on one hand, the cards given in any order
InitOrder ==
    /\ call = "find_outs"
    /\ \E h \in OrderHands : hole = h[1] /\ community = h[2]
    /\ completing = None
    /\ num_outs = 0
    /\ win_probability = Rat(0, 1)
    /\ NoResult
    /\ Direct

\* the second call of find_outs with the same lists
FindOutsAgain ==
    /\ call = "find_outs" /\ pc = "done"
    /\ again' = find_outs(hole, community)
    /\ engine_deck' = deck_after_get_remaining_deck(engine_deck,
                                                    hole \o community)
    /\ pc' = "again"
    /\ UNCHANGED <<call, hole, community, completing, num_outs,
                   win_probability, outs, ratio, nuts, prob, consulted,
                   oracle_fails, strength, callers, request, status, invoked>>

\* what one call returns, as the set of values it can return (two for a
\* ratio exactly between two tenths)
returned(op, hole_cards, community_cards, completing_card) ==
    CASE op = "find_outs" ->
            {find_outs(hole_cards, community_cards)}
      [] op = "is_nuts_when_completed" ->
            {is_nuts_when_completed(hole_cards, community_cards,
                                    completing_card)}
      [] op = "calculate_pot_odds" ->
            UNION {{<<q, r.outs>> : q \in r.ratios} :
                      r \in {calculate_pot_odds(hole_cards, community_cards)}}

\* a caller about to make the call c: its own lists, a copy of them as
\* given, where it is in the call, what the call returned, and whether
\* another call was running when it returned
Caller(c) ==
    [op |-> c[1], hole |-> c[2], community |-> c[3], completing |-> c[4],
     given |-> [hole |-> c[2], community |-> c[3]],
     pc |-> "ready", result |-> <<>>, overlapped |-> FALSE]

\* callers of one engine created at startup, each with its own input lists
InitConcurrent ==
    /\ call = "concurrent"
    /\ hole = <<>>
    /\ community = <<>>
    /\ completing = None
    /\ num_outs = 0
    /\ win_probability = Rat(0, 1)
    /\ NoResult
    /\ oracle_fails = FALSE
    /\ request = NoRequest
    /\ callers \in [1..NumCallers -> {Caller(c) : c \in ConcurrentCalls}]

\* a caller enters its call: the first get_remaining_deck reads self.deck
Enter(i) ==
    /\ call = "concurrent"
    /\ callers[i].pc = "ready"
    /\ engine_deck' = deck_after_get_remaining_deck(
                          engine_deck,
                          callers[i].hole \o callers[i].community)
    /\ callers' = [callers EXCEPT ![i].pc = "running"]
    /\ UNCHANGED <<call, pc, hole, community, completing, num_outs,
                   win_probability, outs, ratio, nuts, prob, consulted,
                   oracle_fails, again, strength, request, status, invoked>>

\* a caller's call runs to its end on the deck as it is then and returns
Return(i) ==
    /\ call = "concurrent"
    /\ callers[i].pc = "running"
    /\ \E r \in returned(callers[i].op, callers[i].hole,
                         callers[i].community, callers[i].completing) :
          callers' = [callers EXCEPT
                         ![i].pc = "done",
                         ![i].result = r,
                         ![i].overlapped =
                             \E j \in (1..NumCallers) \ {i} :
                                 callers[j].pc = "running"]
    /\ engine_deck' = deck_after_get_remaining_deck(
                          engine_deck,
                          callers[i].hole \o callers[i].community)
    /\ UNCHANGED <<call, pc, hole, community, completing, num_outs,
                   win_probability, outs, ratio, nuts, prob, consulted,
                   oracle_fails, again, strength, request, status, invoked>>

ConcurrentEnter == \E i \in 1..NumCallers : Enter(i)

ConcurrentReturn == \E i \in 1..NumCallers : Return(i)

\* evaluate_hand_strength, or the search over the remaining deck, called on
\* a hand of any size with an evaluator that works or fails
InitStrength ==
    /\ call \in {"evaluate_hand_strength",
                 "find_best_possible_hand_strength_excluding_known"}
    /\ \E h \in IF call = "evaluate_hand_strength"
                THEN StrengthHands ELSE SearchHands :
          hole = h[1] /\ community = h[2]
    /\ completing = None
    /\ num_outs = 0
    /\ win_probability = Rat(0, 1)
    /\ NoResult
    /\ oracle_fails \in BOOLEAN
    /\ callers = <<>>
    /\ request = NoRequest

EvaluateHandStrength ==
    /\ call = "evaluate_hand_strength" /\ pc = "ready"
    /\ strength' = evaluate_hand_strength(hole, community)
    /\ pc' = "done"
    /\ UNCHANGED <<call, hole, community, completing, num_outs,
                   win_probability, outs, ratio, nuts, prob, consulted,
                   engine_deck, oracle_fails, again, callers, request,
                   status, invoked>>

FindBestPossibleHandStrength ==
    /\ call = "find_best_possible_hand_strength_excluding_known"
    /\ pc = "ready"
    /\ strength' = find_best_possible_hand_strength_excluding_known(
                       community, hole \o community)
    /\ engine_deck' = deck_after_get_remaining_deck(engine_deck,
                                                    hole \o community)
    /\ pc' = "done"
    /\ UNCHANGED <<call, hole, community, completing, num_outs,
                   win_probability, outs, ratio, nuts, prob, consulted,
                   oracle_fails, again, callers, request, status, invoked>>

\* a POST /api/calculate request arrives
InitApi ==
    /\ call = "api_calculate"
    /\ hole = <<>>
    /\ community = <<>>
    /\ completing = None
    /\ num_outs = 0
    /\ win_probability = Rat(0, 1)
    /\ NoResult
    /\ oracle_fails = FALSE
    /\ callers = <<>>
    /\ request \in Requests

\* the request is answered: 422 from request validation, 422 from the
\* handler's except ValueError, or the calculator's result with 200
ApiCalculate ==
    /\ call = "api_calculate" /\ pc = "ready"
    /\ IF ~CalculateRequest(request) \/ handler_raises_ValueError(request)
       THEN /\ status' = 422
            /\ UNCHANGED <<hole, community, ratio, outs, consulted, invoked,
                           engine_deck>>
       ELSE /\ hole' = parse_cards(request.hole_cards)
            /\ community' = parse_cards(request.community_cards)
            /\ invoked' = TRUE
            /\ \E r \in {calculate_pot_odds(
                             parse_cards(request.hole_cards),
                             parse_cards(request.community_cards))} :
                  /\ ratio' \in r.ratios
                  /\ outs' = r.outs
                  /\ consulted' = r.consulted
            /\ engine_deck' = deck_after_get_remaining_deck(
                                  engine_deck,
                                  parse_cards(request.hole_cards)
                                      \o parse_cards(request.community_cards))
            /\ status' = 200
    /\ pc' = "done"
    /\ UNCHANGED <<call, completing, num_outs, win_probability, nuts, prob,
                   oracle_fails, again, strength, callers, request>>

Init ==
    \/ InitOuts
    \/ InitNuts
    \/ InitOdds
    \/ InitProb
    \/ InitDraws
    \/ InitOrder
    \/ InitConcurrent
    \/ InitStrength
    \/ InitApi

Next ==
    \/ FindOuts
    \/ IsNutsWhenCompleted
    \/ CalculatePotOdds
    \/ NextProb
    \/ FindOutsAgain
    \/ ConcurrentEnter
    \/ ConcurrentReturn
    \/ EvaluateHandStrength
    \/ FindBestPossibleHandStrength
    \/ ApiCalculate

Spec == Init /\ [][Next]_vars

\* the outs classifier alone
SpecOuts == InitOuts /\ [][FindOuts]_vars

\* the nuts evaluator alone
SpecNuts == InitNuts /\ [][IsNutsWhenCompleted]_vars

\* the orchestrator alone
SpecOdds == InitOdds /\ [][CalculatePotOdds]_vars

\* the probability formulas and the formatter alone
SpecProb == InitProb /\ [][NextProb]_vars

\* the outs classifier alone, on the made hands and the straight draws
SpecDraws == InitDraws /\ [][FindOuts]_vars

\* the outs classifier called twice on reordered hands
NextOrder ==
    \/ FindOuts
    \/ FindOutsAgain

SpecOrder == InitOrder /\ [][NextOrder]_vars

\* concurrent callers of one engine
NextConcurrent ==
    \/ ConcurrentEnter
    \/ ConcurrentReturn

SpecConcurrent == InitConcurrent /\ [][NextConcurrent]_vars

\* the oracle wrapper and the search alone
NextStrength ==
    \/ EvaluateHandStrength
    \/ FindBestPossibleHandStrength

SpecStrength == InitStrength /\ [][NextStrength]_vars

\* the /api/calculate handler alone
SpecApi == InitApi /\ [][ApiCalculate]_vars

\* ------------------------------------------------------------------------
\* Properties of the outs classifier (SpecOuts)
\* ------------------------------------------------------------------------

\* the rank of the known cards: the oracle's with five to seven cards, the
\* 9999 sentinel with fewer
KnownRank(cards) ==
    IF Cardinality(cards) < 5 THEN 9999 ELSE evaluate_cards(cards)

\* card, added to the community cards, gives a hand of five to seven cards
\* ranked strictly below (better than) the current hand
Improves(hole_cards, community_cards, card) ==
    LET known == SeqToSet(hole_cards) \cup SeqToSet(community_cards)
    IN  /\ card \notin known
        /\ Cardinality(known) + 1 \in 5..7
        /\ evaluate_cards(known \cup {card}) < KnownRank(known)

\* the cards of a list of candidates
CandidateCards(cands) == {cands[i][1] : i \in 1..Len(cands)}

\* the cards of the candidates carrying one draw type
CardsLabelled(cands, draw_type) ==
    {cands[i][1] : i \in {k \in 1..Len(cands) : cands[k][2] = draw_type}}

\* the draw families from the highest priority to the lowest, each with the
\* cards it proposes
Families(hole_cards, community_cards) ==
    LET imp == find_improvement_outs(hole_cards, community_cards)
    IN  << [label |-> "royal flush",
            cards |-> CandidateCards(
                          find_royal_flush_outs(hole_cards, community_cards))],
           [label |-> "straight flush",
            cards |-> CandidateCards(
                          find_straight_flush_outs(hole_cards, community_cards))],
           [label |-> "flush",
            cards |-> CandidateCards(
                          find_flush_outs(hole_cards, community_cards))],
           [label |-> "straight",
            cards |-> CandidateCards(
                          find_straight_outs(hole_cards, community_cards))],
           [label |-> "pair",
            cards |-> CandidateCards(
                          find_overcard_outs(hole_cards, community_cards))],
           [label |-> "three of a kind",
            cards |-> CardsLabelled(imp, "three of a kind")],
           [label |-> "four of a kind",
            cards |-> CardsLabelled(imp, "four of a kind")],
           [label |-> "full house",
            cards |-> CardsLabelled(imp, "full house")],
           [label |-> "two pair",
            cards |-> CandidateCards(
                          find_two_pair_outs(hole_cards, community_cards))] >>

\* the draw types the returned list gives a card
LabelsOf(card) ==
    {outs[i].draw_type : i \in {k \in 1..Len(outs) : outs[k].card = card}}

\* C1: every out returned by find_outs, appended to the community cards,
\* gives a rank strictly lower (better) than the current hand's rank, the
\* current rank being the 9999 sentinel when fewer than 5 cards are known.
C1_ValidationInvariant ==
    (call = "find_outs" /\ pc = "done") =>
        \A i \in 1..Len(outs) : Improves(hole, community, outs[i].card)

\* find_outs has returned outs on a flop or turn hand and left out a card
\* that the flush family proposed
C1_Witness ==
    /\ call = "find_outs" /\ pc = "done"
    /\ Len(community) >= 3
    /\ outs # <<>>
    /\ \E c \in CandidateCards(find_flush_outs(hole, community)) :
          LabelsOf(c) = {}

\* C3: a card that is a validated candidate of one or more draw families is
\* reported only under the family that comes first in the order royal flush,
\* straight flush, flush, straight, pair, three of a kind, four of a kind,
\* full house, two pair; a royal-flush out is reported only as royal flush.
C3_PriorityInvariant ==
    (call = "find_outs" /\ pc = "done") =>
        LET fam == Families(hole, community)
        IN  \A c \in 0..51 :
                LET in == {k \in 1..Len(fam) : c \in fam[k].cards}
                IN  IF in # {} /\ Improves(hole, community, c)
                    THEN LabelsOf(c) = {fam[MinOf(in)].label}
                    ELSE LabelsOf(c) = {}

\* find_outs has reported as royal flush a card that the flush and the
\* straight families proposed too
C3_Witness ==
    /\ call = "find_outs" /\ pc = "done"
    /\ \E i \in 1..Len(outs) :
          /\ outs[i].draw_type = "royal flush"
          /\ outs[i].card \in CandidateCards(find_flush_outs(hole, community))
          /\ outs[i].card \in CandidateCards(find_straight_outs(hole, community))

\* C4: no card appears in more than one entry of the list find_outs
\* returns, even when several families, or both hole cards of one rank,
\* propose it.
C4_DedupInvariant ==
    (call = "find_outs" /\ pc = "done") =>
        \A i, j \in 1..Len(outs) : outs[i].card = outs[j].card => i = j

\* find_outs has returned a card that both hole cards of a pocket pair
\* proposed as an overcard out
C4_Witness ==
    /\ call = "find_outs" /\ pc = "done"
    /\ Value(hole[1]) = Value(hole[2])
    /\ LET over == find_overcard_outs(hole, community)
       IN  \E i \in 1..Len(outs) :
              Cardinality({k \in 1..Len(over) : over[k][1] = outs[i].card}) >= 2

\* the nine draw-type identifiers of the response contract
DRAW_TYPES ==
    {"royal_flush", "straight_flush", "flush", "straight", "pair",
     "three_of_a_kind", "four_of_a_kind", "full_house", "two_pair"}

\* C11: the draw_type of every out returned by find_outs is one of the nine
\* identifiers royal_flush, straight_flush, flush, straight, pair,
\* three_of_a_kind, four_of_a_kind, full_house, two_pair.
C11_ClosedDrawTypes ==
    (call = "find_outs" /\ pc = "done") =>
        \A i \in 1..Len(outs) : outs[i].draw_type \in DRAW_TYPES

\* the poker strength of the hand a draw type names, 1 (pair) to 9 (royal
\* flush)
PokerStrength(draw_type) ==
    CASE draw_type = "royal flush" -> 9
      [] draw_type = "straight flush" -> 8
      [] draw_type = "four of a kind" -> 7
      [] draw_type = "full house" -> 6
      [] draw_type = "flush" -> 5
      [] draw_type = "straight" -> 4
      [] draw_type = "three of a kind" -> 3
      [] draw_type = "two pair" -> 2
      [] draw_type = "pair" -> 1

\* C12: an out that is a validated candidate of two draw families is never
\* reported under the family that is the weaker poker hand: the draw type
\* reported for a card names a hand at least as strong as that of every
\* family that proposes the card.
C12_NoUnderClassification ==
    (call = "find_outs" /\ pc = "done") =>
        LET fam == Families(hole, community)
        IN  \A i \in 1..Len(outs) : \A k \in 1..Len(fam) :
                outs[i].card \in fam[k].cards =>
                    PokerStrength(outs[i].draw_type)
                        >= PokerStrength(fam[k].label)

\* the known cards of one rank, and the board cards of one rank
KnownOfRank(r) ==
    {c \in SeqToSet(hole) \cup SeqToSet(community) : Value(c) = r}

BoardOfRank(r) == {c \in SeqToSet(community) : Value(c) = r}

\* the cards of rank r the improvement family proposes as three of a kind
TripsCandidates(r) ==
    {c \in CardsLabelled(find_improvement_outs(hole, community),
                         "three of a kind") : Value(c) = r}

\* the cards of rank r left in the deck
RemainingOfRank(r) ==
    {c \in (0..51) \ (SeqToSet(hole) \cup SeqToSet(community)) : Value(c) = r}

BoardHasPair == \E r \in 2..14 : Cardinality(BoardOfRank(r)) >= 2

\* C18 as stated: for each rank held exactly twice among the known cards,
\* its remaining cards are three-of-a-kind candidates if and only if that
\* rank is not itself a rank paired on the board.
C18_TripsUnlessRankPairedOnBoard ==
    (call = "find_outs" /\ pc = "done") =>
        \A r \in 2..14 :
            Cardinality(KnownOfRank(r)) = 2 =>
                TripsCandidates(r) =
                    IF Cardinality(BoardOfRank(r)) >= 2 THEN {}
                    ELSE RemainingOfRank(r)

\* C18 amended: for each rank held exactly twice among the known cards, its
\* remaining cards are three-of-a-kind candidates if and only if it is not the
\* case that the board has a paired rank and the rank itself appears on the
\* board: a pocket pair always yields trips candidates, a hole card paired
\* with a single board card does so only on a board without a pair, and the
\* rank of the board's own pair never does.
C18_TripsUnlessRankOnPairedBoard ==
    (call = "find_outs" /\ pc = "done") =>
        \A r \in 2..14 :
            Cardinality(KnownOfRank(r)) = 2 =>
                TripsCandidates(r) =
                    IF BoardHasPair /\ BoardOfRank(r) # {} THEN {}
                    ELSE RemainingOfRank(r)

\* find_outs has run on a hand whose hole card pairs a single board card
\* while the board is paired in another rank, and the improvement family
\* proposed no card of the hole card's rank
C18_Witness ==
    /\ call = "find_outs" /\ pc = "done"
    /\ \E r \in 2..14 :
          /\ Cardinality(KnownOfRank(r)) = 2
          /\ Cardinality(BoardOfRank(r)) = 1
          /\ BoardHasPair
          /\ RemainingOfRank(r) # {}
          /\ TripsCandidates(r) = {}

\* the cards find_outs returned with one draw type
OutsLabelled(draw_type) ==
    {outs[i].card : i \in {k \in 1..Len(outs) : outs[k].draw_type = draw_type}}

\* some suit holds exactly 4 of the known cards
FlushDrawInProgress ==
    \E s \in 0..3 :
        Cardinality({c \in SeqToSet(hole) \cup SeqToSet(community) :
                        Suit(c) = s}) = 4

\* a hole-card rank strictly above every community-card rank
IsOvercardRank(r) ==
    /\ \E i \in 1..Len(hole) : Value(hole[i]) = r
    /\ \A j \in 1..Len(community) : Value(community[j]) < r

\* the cards the royal flush, straight flush, flush and straight families
\* propose
HigherFamilyCards ==
    LET fam == Families(hole, community)
    IN  UNION {fam[k].cards : k \in 1..4}

TwoOvercardsHand ==
    LET known == SeqToSet(hole) \cup SeqToSet(community)
        ranks == {Value(c) : c \in known}
        windows == {low..(low + 4) : low \in 2..10} \cup {{14, 2, 3, 4, 5}}
    IN  /\ Len(hole) = 2
        /\ Len(community) \in {3, 4}
        /\ Cardinality(ranks) = Cardinality(known)
        /\ \A s \in 0..3 : Cardinality({c \in known : Suit(c) = s}) < 4
        /\ \A w \in windows : Cardinality(w \cap ranks) < 4
        /\ \A i \in 1..2 : \A j \in 1..Len(community) :
              Value(hole[i]) > Value(community[j])

\* C20: on such a hand find_outs returns exactly 6 outs: the 3 remaining
\* cards of each hole-card rank, as pair outs, and nothing else.
C20_TwoOvercards ==
    (call = "find_outs" /\ pc = "done" /\ TwoOvercardsHand) =>
        /\ Len(outs) = 6
        /\ {outs[i].card : i \in 1..Len(outs)} =
              {c \in (0..51) \ SeqToSet(hole) :
                  Value(c) \in {Value(hole[1]), Value(hole[2])}}
        /\ \A i \in 1..Len(outs) : outs[i].draw_type = "pair"

\* find_outs has run on a flop with two overcards in the hole and nothing
\* else to draw to
C20_Witness ==
    /\ call = "find_outs" /\ pc = "done"
    /\ TwoOvercardsHand
    /\ Len(community) = 3
    /\ outs # <<>>

\* a pocket pair with a three-card board that holds the third card of its
\* rank and two cards of two other distinct ranks
FloppedSet ==
    /\ Len(hole) = 2
    /\ Value(hole[1]) = Value(hole[2])
    /\ Len(community) = 3
    /\ Cardinality(BoardOfRank(Value(hole[1]))) = 1
    /\ Cardinality({Value(c) : c \in SeqToSet(community)}) = 3

\* C22: on a flopped set find_outs returns exactly 7 outs: the one remaining
\* card of the set rank as a four-of-a-kind out and the three remaining cards
\* of each of the two other board ranks as full-house outs.
C22_FloppedSet ==
    (call = "find_outs" /\ pc = "done" /\ FloppedSet) =>
        /\ Len(outs) = 7
        /\ OutsLabelled("four of a kind") = RemainingOfRank(Value(hole[1]))
        /\ Cardinality(OutsLabelled("four of a kind")) = 1
        /\ OutsLabelled("full house") =
              UNION {RemainingOfRank(Value(c)) :
                        c \in {d \in SeqToSet(community) :
                                  Value(d) # Value(hole[1])}}
        /\ Cardinality(OutsLabelled("full house")) = 6

\* find_outs has run on a flopped set and has returned outs
C22_Witness ==
    /\ call = "find_outs" /\ pc = "done"
    /\ FloppedSet
    /\ outs # <<>>

\* the place of a card in the 52-card deck
PositionInDeck(card) == CHOOSE a \in 1..Len(deck) : deck[a] = card

\* C27: every card reported by find_outs is one of the 52 deck cards and is
\* none of the hole cards or community cards: every family draws its
\* candidates from the deck minus the known cards, which has 52 minus the
\* number of known cards entries, in deck order.
C27_OutsFromUnseenDeck ==
    (call = "find_outs" /\ pc = "done") =>
        LET known == SeqToSet(hole) \cup SeqToSet(community)
            remaining_deck == get_remaining_deck(hole \o community)
            fam == Families(hole, community)
        IN  /\ \A i \in 1..Len(outs) :
                  outs[i].card \in SeqToSet(deck) \ known
            /\ \A k \in 1..Len(fam) :
                  fam[k].cards \subseteq SeqToSet(remaining_deck)
            /\ SeqToSet(remaining_deck) = SeqToSet(deck) \ known
            /\ Len(remaining_deck) = 52 - Cardinality(known)
            /\ \A i \in 1..(Len(remaining_deck) - 1) :
                  PositionInDeck(remaining_deck[i])
                      < PositionInDeck(remaining_deck[i + 1])

\* find_outs has returned a card of the rank of a hole card on a flop or
\* later: the family proposed the cards of that rank left in the deck
C27_Witness ==
    /\ call = "find_outs" /\ pc = "done"
    /\ Len(community) >= 3
    /\ \E i \in 1..Len(outs) : \E j \in 1..Len(hole) :
          Value(outs[i].card) = Value(hole[j])

\* ------------------------------------------------------------------------
\* Properties of the nuts evaluator (SpecNuts)
\* ------------------------------------------------------------------------

\* the board the evaluator judges: the community cards, with the completing
\* card in completion mode
FinalBoard ==
    IF completing = None THEN community ELSE community \o <<completing>>

\* the rank two cards make with a board: the oracle's with five to seven
\* cards in all, the 9999 sentinel otherwise
RankWith(two, board) ==
    LET cards == two \cup SeqToSet(board)
    IN  IF Cardinality(cards) \in 5..7 THEN evaluate_cards(cards) ELSE 9999

\* some two distinct cards of the deck without the hole cards and the board
\* make, with the board, a hand strictly better than the hole cards do
BeatenBySomePair(hole_cards, board) ==
    LET known == SeqToSet(hole_cards) \cup SeqToSet(board)
        mine == RankWith(SeqToSet(hole_cards), board)
    IN  \E a, b \in (0..51) \ known :
            a < b /\ RankWith({a, b}, board) < mine

\* C2: whenever is_nuts_when_completed returns true (completion mode with a
\* completing card, or terminal mode on a 5-card board), no two distinct cards
\* of the deck without the hole cards and the final board make, with that
\* board, a hand strictly better than the player's.
C2_NutsSoundness ==
    (call = "is_nuts_when_completed" /\ pc = "done" /\ nuts) =>
        ~BeatenBySomePair(hole, FinalBoard)

\* C8: if the final board has five cards and the five board cards alone make
\* a hand at least as strong as the player's best hand from hole cards and
\* board, is_nuts_when_completed returns false, in both modes, even when
\* nobody can beat the board.
C8_HoleCardRequirement ==
    (/\ call = "is_nuts_when_completed" /\ pc = "done"
     /\ Len(FinalBoard) = 5
     /\ evaluate_cards(SeqToSet(FinalBoard))
           <= RankWith(SeqToSet(hole), FinalBoard))
    => nuts = FALSE

\* the evaluator has judged, in completion mode, a hand that plays a
\* five-card board nobody can beat
C8_Witness ==
    /\ call = "is_nuts_when_completed" /\ pc = "done"
    /\ completing # None
    /\ Len(FinalBoard) = 5
    /\ evaluate_cards(SeqToSet(FinalBoard))
          = RankWith(SeqToSet(hole), FinalBoard)
    /\ ~BeatenBySomePair(hole, FinalBoard)
    /\ nuts = FALSE

\* the conditions of the flush fast path: hole cards and completed board hold
\* five or more cards of one suit, the board has no paired rank, and the
\* ranks of that suit hold no five-card run and no wheel
FastPathConditions(hole_cards, board) ==
    LET cards == SeqToSet(hole_cards) \cup SeqToSet(board)
    IN  /\ \A r \in 2..14 :
              Cardinality({c \in SeqToSet(board) : Value(c) = r}) <= 1
        /\ \E s \in 0..3 :
              LET ranks == {Value(c) : c \in {d \in cards : Suit(d) = s}}
              IN  /\ Cardinality(ranks) >= 5
                  /\ \A low \in 2..10 : ~((low..(low + 4)) \subseteq ranks)
                  /\ ~({14, 2, 3, 4, 5} \subseteq ranks)

\* the general rule: the hand uses a hole card (a five-card board alone is
\* not as good as the player's hand) and no two remaining cards make a
\* better hand on this board
GeneralNutsRule(hole_cards, board) ==
    /\ ~(/\ Len(board) = 5
         /\ evaluate_cards(SeqToSet(board))
               <= RankWith(SeqToSet(hole_cards), board))
    /\ ~BeatenBySomePair(hole_cards, board)

\* C17: whenever the fast-path conditions hold in completion mode, the
\* verdict is_nuts_when_completed returns (the fast path's) equals the verdict
\* of the general rule "uses a hole card and no two remaining cards make a
\* better hand on this board".
C17_FlushFastPathAgrees ==
    (/\ call = "is_nuts_when_completed" /\ pc = "done"
     /\ completing # None
     /\ Len(FinalBoard) <= 5
     /\ FastPathConditions(hole, FinalBoard))
    => (nuts = GeneralNutsRule(hole, FinalBoard))

\* ------------------------------------------------------------------------
\* Properties of the orchestrator (SpecOdds)
\* ------------------------------------------------------------------------

CardsSeen == Len(hole) + Len(community)

\* C5: with 7 cards seen (2 hole + 5 community) calculate_pot_odds returns
\* an empty outs list and the ratio "NUTS!" when the completed hand is the
\* nuts (terminal-mode evaluator) and "999.0:1" otherwise; the outs
\* classifier is not consulted and no other ratio is possible.
C5_RiverRule ==
    (call = "calculate_pot_odds" /\ pc = "done" /\ CardsSeen = 7) =>
        /\ outs = <<>>
        /\ consulted = FALSE
        /\ ratio = IF is_nuts_when_completed(hole, community, None)
                   THEN "NUTS!" ELSE "999.0:1"

\* calculate_pot_odds has answered "NUTS!" on a river hand
C5_Witness ==
    /\ call = "calculate_pot_odds" /\ pc = "done"
    /\ CardsSeen = 7
    /\ ratio = "NUTS!"

C7_FallThrough ==
    (call = "calculate_pot_odds" /\ pc = "done"
        /\ CardsSeen < 7 /\ ratio # "NUTS!") =>
        LET found == find_outs(hole, community)
            P == IF CardsSeen = 6
                 THEN calculate_turn_probability(Len(found))
                 ELSE calculate_flop_probability(Len(found))
        IN  IF found = <<>>
            THEN ratio = "999.0:1" /\ outs = <<>>
            ELSE /\ outs = found
                 /\ \E tie_up \in BOOLEAN :
                       ratio = format_pot_odds_ratio(P, tie_up)

\* calculate_pot_odds has priced a turn hand with outs
C7_Witness ==
    /\ call = "calculate_pot_odds" /\ pc = "done"
    /\ CardsSeen = 6
    /\ outs # <<>>
    /\ ratio \notin {"NUTS!", "999.0:1"}

\* C26: for every hand with 5, 6 or 7 cards seen, calculate_pot_odds returns
\* "NUTS!" exactly when is_nuts_when_completed, called with no completing
\* card on the same hole cards and current board, returns true.
C26_OrchestratorAgreesWithEvaluator ==
    (call = "calculate_pot_odds" /\ pc = "done" /\ CardsSeen \in {5, 6, 7}) =>
        (ratio = "NUTS!" <=> is_nuts_when_completed(hole, community, None))

\* ------------------------------------------------------------------------
\* Properties of the probability formulas and the formatter (SpecProb)
\* ------------------------------------------------------------------------

\* a = b and a <= b on fractions with positive denominators
RatEq(a, b) == a.num * b.den = b.num * a.den

RatLe(a, b) == a.num * b.den <= b.num * a.den

\* C9: the flop probability is 1 - ((47-outs)/47)*((46-outs)/46) for
\* 0 < outs < 47, 0 for outs <= 0 and 1 for outs >= 47; the turn probability
\* is outs/46 for 0 < outs < 46, 0 for outs <= 0 and 1 for outs >= 46; both
\* lie in [0,1].
C9_WinProbability ==
    /\ (call = "calculate_flop_probability" /\ pc = "done") =>
          /\ prob.den > 0
          /\ RatLe(Rat(0, 1), prob) /\ RatLe(prob, Rat(1, 1))
          /\ num_outs <= 0 => RatEq(prob, Rat(0, 1))
          /\ num_outs >= 47 => RatEq(prob, Rat(1, 1))
          /\ (0 < num_outs /\ num_outs < 47) =>
                RatEq(prob, Rat(47 * 46 - (47 - num_outs) * (46 - num_outs),
                                47 * 46))
    /\ (call = "calculate_turn_probability" /\ pc = "done") =>
          /\ prob.den > 0
          /\ RatLe(Rat(0, 1), prob) /\ RatLe(prob, Rat(1, 1))
          /\ num_outs <= 0 => RatEq(prob, Rat(0, 1))
          /\ num_outs >= 46 => RatEq(prob, Rat(1, 1))
          /\ (0 < num_outs /\ num_outs < 46) =>
                RatEq(prob, Rat(num_outs, 46))

\* the turn formula has returned 9/46 for nine outs
C9_Witness ==
    /\ call = "calculate_turn_probability" /\ pc = "done"
    /\ num_outs = 9
    /\ prob.num * 46 = 9 * prob.den

\* the text of a ratio of t tenths: whole without a decimal point, one
\* fractional digit otherwise
TenthsText(t) ==
    IF t % 10 = 0 THEN ToString(t \div 10) \o ":1"
    ELSE ToString(t \div 10) \o "." \o ToString(t % 10) \o ":1"

\* the tenths nearest to the fraction r: those t with |10 r - t| <= 1/2
NearestTenths(r) ==
    {t \in 0..(10 * (MaxDen + 1)) :
        /\ 2 * (10 * r.num - t * r.den) <= r.den
        /\ 2 * (t * r.den - 10 * r.num) <= r.den}

\* C10: the ratio string is "999.0:1" when P <= 0, "0.0:1" when P >= 1, and
\* otherwise (1-P)/P rounded to one decimal place followed by ":1", an
\* integer without a decimal point when the rounded value is whole and with
\* exactly one fractional digit otherwise.
C10_RatioFormatting ==
    (call = "format_pot_odds_ratio" /\ pc = "done") =>
        LET P == win_probability
        IN  /\ P.num <= 0 => ratio = "999.0:1"
            /\ P.num >= P.den => ratio = "0.0:1"
            /\ (0 < P.num /\ P.num < P.den) =>
                  \E t \in NearestTenths(Rat(P.den - P.num, P.num)) :
                      ratio = TenthsText(t)

\* P = 3/10 has been formatted: 7/3 is rounded to 2.3
C10_Witness ==
    /\ call = "format_pot_odds_ratio" /\ pc = "done"
    /\ win_probability = Rat(3, 10)
    /\ ratio = "2.3:1"

\* ------------------------------------------------------------------------
\* Properties of repeated and reordered calls of the classifier (SpecOrder)
\* ------------------------------------------------------------------------

\* the (card, draw_type) pairs of an outs list
OutPairs(outs_list) ==
    {<<outs_list[i].card, outs_list[i].draw_type>> : i \in 1..Len(outs_list)}

\* the hand with its hole cards and its community cards in deck order
HoleInDeckOrder == SortedSeq(SeqToSet(hole))

CommunityInDeckOrder == SortedSeq(SeqToSet(community))

\* C13: two calls of find_outs with identical hole and community cards yield
\* the same set of (card, draw_type) pairs, and that set is the one find_outs
\* yields for the same cards supplied in another order (here: deck order).
C13_IdempotentOrderIndependent ==
    /\ (call = "find_outs" /\ pc \in {"done", "again"}) =>
          OutPairs(outs)
             = OutPairs(find_outs(HoleInDeckOrder, CommunityInDeckOrder))
    /\ (call = "find_outs" /\ pc = "again") =>
          OutPairs(again) = OutPairs(outs)

\* find_outs has been called twice on a hand whose cards are not in deck
\* order, and has returned its outs in another sequence than it does for
\* the cards in deck order
C13_Witness ==
    /\ call = "find_outs" /\ pc = "again"
    /\ hole # HoleInDeckOrder
    /\ community # CommunityInDeckOrder
    /\ outs # <<>>
    /\ outs # find_outs(HoleInDeckOrder, CommunityInDeckOrder)

\* ------------------------------------------------------------------------
\* Properties of concurrent calls on one engine (SpecConcurrent)
\* ------------------------------------------------------------------------

\* C14: in any interleaving of concurrent find_outs, calculate_pot_odds and
\* is_nuts_when_completed calls that share one engine, the engine's 52-card
\* deck and every caller's hole and community lists are left unchanged, and
\* each call has returned a result it returns when run alone, that is, on
\* the lists as given and on the deck of a fresh engine (which the first
\* conjunct says the deck of this state is).
C14_StatelessUnderConcurrency ==
    call = "concurrent" =>
        /\ engine_deck = deck
        /\ Len(engine_deck) = 52
        /\ \A i \in 1..NumCallers :
              /\ callers[i].hole = callers[i].given.hole
              /\ callers[i].community = callers[i].given.community
              /\ callers[i].pc = "done" =>
                    callers[i].result
                       \in returned(callers[i].op, callers[i].given.hole,
                                    callers[i].given.community,
                                    callers[i].completing)

\* every call has returned, calls of different operations among them, and
\* one returned while another was still running
C14_Witness ==
    /\ call = "concurrent"
    /\ \A i \in 1..NumCallers : callers[i].pc = "done"
    /\ \E i, j \in 1..NumCallers :
          /\ callers[i].op # callers[j].op
          /\ callers[i].overlapped
          /\ callers[i].result # <<>>

\* ------------------------------------------------------------------------
\* Properties of the oracle wrapper and the search (SpecStrength)
\* ------------------------------------------------------------------------

\* the best rank two cards of the deck without the known cards make with the
\* board, 9999 if no two cards make a hand of five to seven cards
BestOfRemaining(hole_cards, board) ==
    LET known == SeqToSet(hole_cards) \cup SeqToSet(board)
    IN  MinOf({9999} \cup
              {RankWith({a, b}, board) :
                  <<a, b>> \in {ab \in ((0..51) \ known) \X ((0..51) \ known) :
                                  ab[1] < ab[2]}})

\* C16: evaluate_hand_strength never raises; with fewer than 5 cards, or when
\* the underlying evaluator fails (the library fails, or is given more than
\* 7 cards), it returns 9999; and the search over the remaining deck goes on
\* past such combinations: it returns the best rank of the combinations that
\* can be evaluated, 9999 if there is none.
C16_OracleDegradation ==
    /\ (call = "evaluate_hand_strength" /\ pc = "done") =>
          /\ strength # Raised
          /\ strength \in 1..9999
          /\ Len(hole) + Len(community) < 5 => strength = 9999
          /\ (oracle_fails \/ Len(hole) + Len(community) > 7) =>
                strength = 9999
    /\ (call = "find_best_possible_hand_strength_excluding_known"
        /\ pc = "done") =>
          /\ strength # Raised
          /\ strength = IF oracle_fails \/ Len(community) > 5 THEN 9999
                        ELSE BestOfRemaining(hole, community)

\* the search has run over a five-card board with an evaluator that fails
\* on every combination, and has returned 9999
C16_Witness ==
    /\ call = "find_best_possible_hand_strength_excluding_known"
    /\ pc = "done"
    /\ oracle_fails
    /\ Len(community) = 5
    /\ strength = 9999

\* ------------------------------------------------------------------------
\* Properties of the /api/calculate handler (SpecApi)
\* ------------------------------------------------------------------------

\* a string that is no card: not two characters, a rank and a suit
Malformed(card) ==
    ~(/\ Len(card) = 2
      /\ card[1] \in {"2", "3", "4", "5", "6", "7", "8", "9",
                      "T", "J", "Q", "K", "A"}
      /\ card[2] \in {"s", "h", "d", "c"})

\* some string is given twice, within or across the two lists
Repeated(req) ==
    LET all == req.hole_cards \o req.community_cards
    IN  \E i, j \in 1..Len(all) : i # j /\ all[i] = all[j]

\* C15: a request with a malformed card token, a hole-card count other than
\* 2, more than 5 community cards, or a card repeated within or across the
\* lists is answered with status 422 and calculate_pot_odds is not invoked
\* on it; so every hand that reaches the core has exactly 2 hole cards, 0 to
\* 5 community cards, valid notation and no duplicates.
C15_RejectedBeforeCalculation ==
    (call = "api_calculate" /\ pc = "done") =>
        /\ (\/ \E i \in 1..Len(request.hole_cards) :
                  Malformed(request.hole_cards[i])
            \/ \E i \in 1..Len(request.community_cards) :
                  Malformed(request.community_cards[i])
            \/ Len(request.hole_cards) # 2
            \/ Len(request.community_cards) > 5
            \/ Repeated(request))
           => (status = 422 /\ ~invoked)
        /\ invoked =>
              /\ Len(hole) = 2
              /\ Len(community) \in 0..5
              /\ \A i \in 1..Len(hole) :
                    hole[i] \in 0..51 /\ CardStr(hole[i]) =
                        request.hole_cards[i][1] \o request.hole_cards[i][2]
              /\ \A i \in 1..Len(community) :
                    community[i] \in 0..51 /\ CardStr(community[i]) =
                        request.community_cards[i][1]
                            \o request.community_cards[i][2]
              /\ Cardinality(SeqToSet(hole \o community))
                    = Len(hole) + Len(community)

\* a request whose only flaw is a card string with a newline after it, which
\* the pattern lets through, has been answered with 422
C15_Witness ==
    /\ call = "api_calculate" /\ pc = "done"
    /\ Len(request.hole_cards) = 2
    /\ CalculateRequest(request)
    /\ \E i \in 1..2 : Len(request.hole_cards[i]) = 3
    /\ status = 422
    /\ ~invoked

\* ------------------------------------------------------------------------
\* Properties of the outs classifier on made hands and draws (SpecDraws)
\* ------------------------------------------------------------------------

\* fewer than two ranks are held twice or more among the known cards and the
\* board itself holds a pair
TwoPairConditions ==
    /\ Cardinality({r \in 2..14 : Cardinality(KnownOfRank(r)) >= 2}) < 2
    /\ BoardHasPair

\* the remaining cards of the hole-card ranks held only once
UnpairedHoleRankCards ==
    UNION {RemainingOfRank(Value(hole[i])) :
              i \in {k \in 1..Len(hole) :
                        Cardinality(KnownOfRank(Value(hole[k]))) = 1}}

\* the cards proposed by a family of higher priority than two pair
EarlierFamilyCards ==
    LET fam == Families(hole, community)
    IN  UNION {fam[k].cards : k \in 1..8}

\* C21 as stated: find_outs reports two-pair outs only when fewer than two
\* ranks are held twice or more and the board holds a pair; under those
\* conditions the two-pair outs are the remaining cards of every hole-card
\* rank held only once, less those a higher-priority family claims, and never
\* a hole card.
C21_TwoPairOuts ==
    (call = "find_outs" /\ pc = "done") =>
        /\ OutsLabelled("two pair") =
              IF TwoPairConditions
              THEN UnpairedHoleRankCards \ EarlierFamilyCards
              ELSE {}
        /\ OutsLabelled("two pair") \cap SeqToSet(hole) = {}

\* C21 amended: under those conditions the two-pair outs are the remaining
\* cards of every hole-card rank held only once that pass validation, less
\* those a higher-priority family claims; without them there is no two-pair
\* out, and a hole card is never one.
C21_ValidatedTwoPairOuts ==
    (call = "find_outs" /\ pc = "done") =>
        /\ OutsLabelled("two pair") =
              IF TwoPairConditions
              THEN {c \in UnpairedHoleRankCards \ EarlierFamilyCards :
                       Improves(hole, community, c)}
              ELSE {}
        /\ OutsLabelled("two pair") \cap SeqToSet(hole) = {}

\* find_outs has run on two unpaired hole cards over a paired board and has
\* reported the 3 remaining cards of each hole rank as two-pair outs
C21_Witness ==
    /\ call = "find_outs" /\ pc = "done"
    /\ TwoPairConditions
    /\ Value(hole[1]) # Value(hole[2])
    /\ \A i \in 1..2 :
          /\ Cardinality(KnownOfRank(Value(hole[i]))) = 1
          /\ Cardinality(OutsLabelled("two pair")
                            \cap RemainingOfRank(Value(hole[i]))) = 3

\* the known cards and their ranks
Known == SeqToSet(hole) \cup SeqToSet(community)

KnownRanks == {Value(c) : c \in Known}

\* the 10 straight windows: 9 runs of five consecutive ranks and the wheel
StraightWindows == {low..(low + 4) : low \in 2..10} \cup {{14, 2, 3, 4, 5}}

\* the ranks that are the single missing rank of a window whose other four
\* ranks are held
StraightCompletingRanks ==
    {r \in (2..14) \ KnownRanks :
        \E w \in StraightWindows : r \in w /\ w \ {r} \subseteq KnownRanks}

\* the current hand ranks below a straight (a straight ranks 1609 at worst;
\* fewer than 5 known cards rank 9999)
WeakerThanStraight == KnownRank(Known) > 1609

\* no suit holds 4 or more of the known cards
NoSuitOfFour ==
    \A s \in 0..3 : Cardinality({c \in Known : Suit(c) = s}) < 4

\* C23 as stated: for a hand weaker than a straight in which no suit holds 4
\* or more known cards, the outs classified as straight are exactly all four
\* cards of every rank that is the single missing rank of one of the 10
\* straight windows whose other four ranks are held.
C23_StraightDraws ==
    (call = "find_outs" /\ pc = "done"
        /\ WeakerThanStraight /\ NoSuitOfFour) =>
            OutsLabelled("straight") =
                {c \in 0..51 : Value(c) \in StraightCompletingRanks}

\* C23 amended: the same for a hand of at most 6 known cards (at most 4
\* community cards); a gutshot yields 4 straight outs and an open-ended
\* draw 8.
C23_StraightDrawsBeforeRiver ==
    (call = "find_outs" /\ pc = "done"
        /\ WeakerThanStraight /\ NoSuitOfFour
        /\ Cardinality(Known) <= 6) =>
            /\ OutsLabelled("straight") =
                  {c \in 0..51 : Value(c) \in StraightCompletingRanks}
            /\ Cardinality(OutsLabelled("straight")) =
                  4 * Cardinality(StraightCompletingRanks)

\* find_outs has run on an open-ended straight draw: two ranks complete a
\* straight and 8 straight outs were returned
C23_Witness ==
    /\ call = "find_outs" /\ pc = "done"
    /\ WeakerThanStraight /\ NoSuitOfFour
    /\ Cardinality(Known) <= 6
    /\ Cardinality(StraightCompletingRanks) = 2
    /\ Cardinality(OutsLabelled("straight")) = 8

\* the high card of a straight window, 5 for the wheel
WindowHigh(w) == IF w = {14, 2, 3, 4, 5} THEN 5 ELSE MaxOf(w)

\* the high cards of the straights a set of ranks holds
StraightHighs(ranks) ==
    {WindowHigh(w) : w \in {x \in StraightWindows : x \subseteq ranks}}

\* the player already holds a straight
HoldsStraight == StraightHighs(KnownRanks) # {}

\* card completes a straight higher than the one held
CompletesHigherStraight(card) ==
    /\ card \notin Known
    /\ MaxOf(StraightHighs(KnownRanks \cup {Value(card)}))
          > MaxOf(StraightHighs(KnownRanks))

\* card completes a straight, and only straights lower than the one held
CompletesOnlyLowerStraight(card) ==
    /\ card \notin Known
    /\ StraightHighs(KnownRanks \cup {Value(card)})
          # StraightHighs(KnownRanks)
    /\ MaxOf(StraightHighs(KnownRanks \cup {Value(card)}))
          = MaxOf(StraightHighs(KnownRanks))

\* C24 as stated: when the player already holds a straight and no suit holds
\* 4 or more known cards, a card that would only complete a lower straight is
\* not reported as an out, while every card that completes a higher straight
\* is reported as a straight out.
C24_MadeStraight ==
    (call = "find_outs" /\ pc = "done" /\ HoldsStraight /\ NoSuitOfFour) =>
        \A c \in 0..51 :
            /\ CompletesHigherStraight(c) => LabelsOf(c) = {"straight"}
            /\ CompletesOnlyLowerStraight(c) => LabelsOf(c) = {}

\* C24 amended: the same when the straight is held among at most 6 known
\* cards (at most 4 community cards).
C24_MadeStraightBeforeRiver ==
    (call = "find_outs" /\ pc = "done" /\ HoldsStraight /\ NoSuitOfFour
        /\ Cardinality(Known) <= 6) =>
        \A c \in 0..51 :
            /\ CompletesHigherStraight(c) => LabelsOf(c) = {"straight"}
            /\ CompletesOnlyLowerStraight(c) => LabelsOf(c) = {}

\* find_outs has run on a made straight that four cards of one rank would
\* raise and four cards of another rank would only repeat lower: the former
\* were returned as straight outs, the latter were not returned
C24_Witness ==
    /\ call = "find_outs" /\ pc = "done"
    /\ HoldsStraight /\ NoSuitOfFour
    /\ Cardinality(Known) <= 6
    /\ Cardinality({c \in 0..51 : CompletesHigherStraight(c)
                                     /\ LabelsOf(c) = {"straight"}}) = 4
    /\ Cardinality({c \in 0..51 : CompletesOnlyLowerStraight(c)
                                     /\ LabelsOf(c) = {}}) = 4

\* the ranks of the known cards of one suit
KnownSuitRanks(s) == {Value(c) : c \in {d \in Known : Suit(d) = s}}

\* the suits in which the known cards hold a flush with neither a
\* straight-flush nor a royal draw
MadeFlushSuits ==
    LET fam == Families(hole, community)
    IN  {s \in 0..3 :
            /\ Cardinality(KnownSuitRanks(s)) >= 5
            /\ \A c \in fam[1].cards \cup fam[2].cards : Suit(c) # s}

\* the lowest of the five cards of the best flush held in a suit
LowestOfBestFlush(s) ==
    CHOOSE r \in KnownSuitRanks(s) :
        Cardinality({x \in KnownSuitRanks(s) : x > r}) = 4

\* C25 as stated: when the known cards already contain a flush, with no
\* straight-flush or royal draw in that suit, a remaining card of that suit is
\* reported as an out, with draw type flush, if and only if it ranks above the
\* lowest of the five cards of the current best flush.
C25_MadeFlush ==
    (call = "find_outs" /\ pc = "done") =>
        \A s \in MadeFlushSuits : \A c \in (0..51) \ Known :
            Suit(c) = s =>
                LabelsOf(c) = IF Value(c) > LowestOfBestFlush(s)
                              THEN {"flush"} ELSE {}

\* C25 amended: the same when the flush is held among at most 6 known cards
\* (at most 4 community cards).
C25_MadeFlushBeforeRiver ==
    (call = "find_outs" /\ pc = "done" /\ Cardinality(Known) <= 6) =>
        \A s \in MadeFlushSuits : \A c \in (0..51) \ Known :
            Suit(c) = s =>
                LabelsOf(c) = IF Value(c) > LowestOfBestFlush(s)
                              THEN {"flush"} ELSE {}

\* find_outs has run on a made flush, has returned a higher card of the suit
\* as a flush out and has left out a card of the suit below the flush
C25_Witness ==
    /\ call = "find_outs" /\ pc = "done"
    /\ Cardinality(Known) <= 6
    /\ \E s \in MadeFlushSuits :
          /\ \E c \in OutsLabelled("flush") :
                Suit(c) = s /\ Value(c) > LowestOfBestFlush(s)
          /\ \E c \in (0..51) \ Known :
                /\ Suit(c) = s
                /\ Value(c) < LowestOfBestFlush(s)
                /\ LabelsOf(c) = {}

\* ------------------------------------------------------------------------
\* Properties of the results of the orchestrator (SpecOdds)
\* ------------------------------------------------------------------------

\* the ratio strings that are a number followed by ":1": a whole number, or
\* a number with one decimal, of at most 46 (at least one of the 46 or 47
\* unseen cards is an out), and "0.0:1"
NumberToOne ==
    {TenthsText(t) : t \in 0..(10 * 46)} \cup {"0.0:1"}

\* C28: in every result of calculate_pot_odds a "NUTS!" ratio comes with an
\* empty outs list; the outs list is empty exactly when the ratio is "NUTS!"
\* or "999.0:1"; and with a non-empty outs list the ratio is a number
\* followed by ":1" that is neither "NUTS!" nor "999.0:1".
C28_ResultShape ==
    (call = "calculate_pot_odds" /\ pc = "done") =>
        /\ ratio = "NUTS!" => outs = <<>>
        /\ outs = <<>> <=> ratio \in {"NUTS!", "999.0:1"}
        /\ outs # <<>> =>
              /\ ratio \in NumberToOne
              /\ ratio \notin {"NUTS!", "999.0:1"}

\* calculate_pot_odds has returned outs and a ratio for a hand before the
\* river
C28_Witness ==
    /\ call = "calculate_pot_odds" /\ pc = "done"
    /\ outs # <<>>
    /\ ratio \in NumberToOne
    /\ consulted = TRUE

\* the candidates the seven families propose, in the order find_outs asks
\* them
AllCandidates ==
    LET fam == Families(hole, community)
    IN  UNION {fam[k].cards : k \in 1..Len(fam)}

\* C29: with 0 or 1 community cards find_outs returns an empty list for
\* every hole-card pair, the current rank and every candidate's rank being
\* the 9999 sentinel, and calculate_pot_odds returns ("999.0:1", []).
C29_TooFewCards ==
    (call = "calculate_pot_odds" /\ pc = "done" /\ Len(community) <= 1) =>
        /\ evaluate_hand_strength(hole, community) = 9999
        /\ \A c \in AllCandidates :
              evaluate_hand_strength(hole, community \o <<c>>) = 9999
        /\ find_outs(hole, community) = <<>>
        /\ consulted = TRUE
        /\ ratio = "999.0:1"
        /\ outs = <<>>

\* calculate_pot_odds has run on a hand with at most one community card for
\* which a family proposed candidates, and has returned ("999.0:1", [])
C29_Witness ==
    /\ call = "calculate_pot_odds" /\ pc = "done"
    /\ Len(community) <= 1
    /\ AllCandidates # {}
    /\ ratio = "999.0:1"
    /\ outs = <<>>

\* ------------------------------------------------------------------------
\* Properties of the nuts evaluator below five cards (SpecNuts)
\* ------------------------------------------------------------------------

\* C30: is_nuts_when_completed returns false whenever the hole cards plus
\* the final board (the community cards plus the completing card, if any)
\* total fewer than 5 cards.
C30_NoNutsBelowFiveCards ==
    (call = "is_nuts_when_completed" /\ pc = "done"
       /\ Len(hole) + Len(FinalBoard) < 5) => nuts = FALSE

====
